---- MODULE Spec2Model ----
(***************************************************************************)
(* A model of the people counter's tracking-and-zone-crossing pipeline:    *)
(*   core/tracker.py       ObjectTracker (centroid tracker)                *)
(*   core/polygon.py       PolygonManager (zone membership, transitions)   *)
(*   core/video_stream.py  VideoStreamHandler (capture thread, stop)       *)
(*   app/routers/video.py  the streaming endpoint's frame cycle, counters  *)
(*                                                                         *)
(* Python values are represented as follows: a dict is a function on its   *)
(* key set; a list is a sequence; None for an object reference is 0 where  *)
(* handles are numbered from 1, and the empty sequence for a polygon.      *)
(* Variables prefixed g_ are history (ghost) variables: the program does   *)
(* not hold them, they record what it did so that claims can be stated.    *)
(***************************************************************************)
EXTENDS Integers, Sequences, FiniteSets, TLC

VARIABLES
  \* ---- ObjectTracker (core/tracker.py)
  next_object_id,   \* self.next_object_id
  objects,          \* self.objects        {object_id: centroid}
  disappeared,      \* self.disappeared    {object_id: count}
  track_history,    \* self.track_history  {object_id: [centroid]}
  g_assigned,       \* ghost: the ids handed out by register, in call order
  g_full,           \* ghost: every centroid a registered track was given
  g_misses,         \* ghost: consecutive update calls without a match, per id
  g_dereg,          \* ghost: the ids deregister has removed
  g_cycles,         \* ghost: number of tracker calls made (bounds the run)
  g_last,           \* ghost: what the last tracker call was and returned
  \* ---- PolygonManager (core/polygon.py)
  pm_coordinates,   \* self.coordinates      [[x, y], ...]
  pm_polygon,       \* self.polygon          the shapely Polygon's ring, <<>> for None
  previous_states,  \* self.previous_states  {track_id: was_inside}
  g_pm_call,        \* ghost: the last PolygonManager call, its arguments and
                    \*        what the call history said about the track before it
  g_pm_ret,         \* ghost: what the last check_entry_exit returned
  g_pm_obs,         \* ghost: per track, the last membership observed since the
                    \*        last update_polygon
  g_pm_events,      \* ghost: per track, the last two events emitted
  g_pm_gen_events,  \* ghost: the same, since the last update_polygon
  g_pm_reloads,     \* ghost: number of update_polygon calls
  \* ---- the frame cycle and its counters.  One process is either the
  \* streaming endpoint (app/routers/video.py, module globals) or the
  \* detection service (run_detection.py, DetectionService fields); program
  \* says which, and the variables below are that process's.
  program,          \* "none" before start-up, then "api" or "service"
  frame_count,      \* generate_frames' frame_count / self.frame_count
  enter_count,      \* enter_count / self.enter_count
  exit_count,       \* exit_count / self.exit_count
  current_inside,   \* current_inside / self.current_inside
  prev_inside_state,\* video.py prev_inside_state  {track_id: bool}
  in_flags,         \* run_detection.py: ids with the attribute in_<id> set
  out_flags,        \* run_detection.py: ids with the attribute out_<id> set
  g_cycle,          \* ghost: what the last frame cycle was and published
  g_obs,            \* ghost: the observations of the last detection cycle, in
                    \*        order: track id, membership, first sight, event
  g_seen,           \* ghost: the track ids the counter code has observed
  save_tasks,       \* the save tasks created and not yet finished
  g_save,           \* ghost: how the last save task to finish ended
  \* ---- VideoStreamHandler (core/video_stream.py)
  cap,              \* self.cap: a capture handle's number, 0 for None
  handles,          \* the cv2.VideoCapture objects made so far, each
                    \*   "open", "failed" (never opened) or "released"
  frame,            \* self.frame: the number of the frame held, 0 for None
  stopped,          \* self.stopped
  handler_frame_count, \* self.frame_count
  start_pc,         \* where the caller of start() is
  thread_pc,        \* where the capture thread (_update) is
  stop_pc,          \* where the caller of stop() is
  g_stops,          \* ghost: number of stop() calls that have returned
  g_delivered,      \* ghost: number of frames the transport has delivered
  g_read_ret,       \* ghost: what the last read() returned (-1: never called)
  start_url,        \* start(): the url the capture is made on, "resolved"
                    \*   (streams['best'].url) or "direct" (self.stream_url)
  g_tried,          \* ghost: the urls start() has made a capture on
  \* ---- the process around the frame cycle, and the config store
  store_coordinates,   \* the zone record's coordinates, <<>> for no record
  store_updated_at,    \* the zone record's updated_at, 0 for no record
  last_polygon_update, \* self.last_polygon_update, 0 for None
  service_original_size, \* (self.original_width, self.original_height), <<>>
                       \*   before initialize
  polygon_config,      \* periodic_polygon_check: the record find_one gave,
                       \*   while the iteration has not yet acted on it
  source_started,      \* what the Frame Source's start() returned: "none"
                       \*   (not called), "true" or "false"
  g_stop_called,       \* ghost: stop() has been called on the Frame Source
  g_shutdown,          \* ghost: a shutdown of the service was requested
  \* ---- the configuration endpoints (app/routers/config.py)
  polygon_collection,  \* the documents of the polygon collection, in
                       \*   insertion order: area_name and coordinates
  handlers,            \* for each request being handled: the operation, its
                       \*   arguments and how far the handler has come
  g_response,          \* ghost: the last handler step and its HTTP status
  g_requests,          \* ghost: number of requests taken up (bounds the run)
  g_steps,             \* ghost: number of handler steps taken
  g_purged,            \* ghost: the areas whose data reset_area_data deleted
  \* ---- the coroutines of one event loop
  task_pc,             \* where each coroutine is: "await" (suspended),
                       \*   "detect", "draw" (in a detection cycle) or
                       \*   "apply" (the poll, holding the record it found)
  task_count,          \* the frame counter of each loop: frame_count of
                       \*   generate_frames, self.frame_count of the service
  task_tracked,        \* tracked_detections of the cycle under way
  loop_owner           \* the coroutine the event loop is running, "none"
                       \*   when all are suspended

trackerVars == <<next_object_id, objects, disappeared, track_history,
                 g_assigned, g_full, g_misses, g_dereg, g_cycles, g_last>>

polyVars == <<pm_coordinates, pm_polygon, previous_states, g_pm_call, g_pm_ret,
              g_pm_obs, g_pm_events, g_pm_gen_events, g_pm_reloads>>

pipeVars == <<program, frame_count, enter_count, exit_count, current_inside,
              prev_inside_state, in_flags, out_flags, g_cycle, g_obs, g_seen,
              save_tasks, g_save>>

streamVars == <<cap, handles, frame, stopped, handler_frame_count,
                start_pc, thread_pc, stop_pc, g_stops, g_delivered, g_read_ret,
                start_url, g_tried>>

svcVars == <<store_coordinates, store_updated_at, last_polygon_update,
             service_original_size, polygon_config, source_started,
             g_stop_called,
             g_shutdown>>

cfgVars == <<polygon_collection, handlers, g_response, g_requests, g_steps,
             g_purged>>

loopVars == <<task_pc, task_count, task_tracked, loop_owner>>

vars == <<trackerVars, polyVars, pipeVars, streamVars, svcVars, cfgVars,
          loopVars>>

----------------------------------------------------------------------------
(* Bounds of the model                                                      *)

MaxDisappeared == 2     \* the max_disappeared the tracker is built with
MaxCycles == 4          \* tracker calls per run (SpecTracker)

MaxHistCycles == 33     \* tracker calls per run (SpecHist)
MaxFrames == 8          \* frames per run of a frame cycle (SpecPipeline)
MaxHandles == 3         \* capture handles opened per run (SpecStream)
MaxReads == 2           \* frames the transport delivers per run (SpecStream)
MaxStops == 2           \* stop() calls per run (SpecStream)
MaxUpdates == 2         \* update_area calls per run (SpecReload)
MaxSaveFrames == 6      \* frames per run of a frame cycle (SpecSave)
\* Frame cycles run in the specification of the fed frame cycle.
MaxFeedFrames == 2

\* Frames per coroutine in the specification of the event loop.
MaxLoopFrames == 3

MaxRequests == 4        \* requests to the configuration endpoints (SpecConfig)

(* Program constants                                                        *)

GateSq == 10000         \* tracker.py:64  D[row, col] < 100, squared
BoxGateSq == 2500       \* tracker.py:101 d < 50, squared
HistoryCap == 30        \* tracker.py:69-70
FRAME_SKIP == 2         \* app/config.py:33
FRAME_WIDTH == 1280     \* app/config.py:34
FRAME_HEIGHT == 720     \* app/config.py:35

max_disappeared == MaxDisappeared

----------------------------------------------------------------------------
(* Generic helpers                                                          *)

Max(a, b) == IF a >= b THEN a ELSE b

Min(a, b) == IF a <= b THEN a ELSE b

Range(s) == {s[i] : i \in DOMAIN s}

\* The elements of a finite set of integers as an ascending sequence.
RECURSIVE SortedSeq(_)
SortedSeq(S) ==
  IF S = {} THEN <<>>
  ELSE LET m == CHOOSE x \in S : \A y \in S : x <= y
       IN <<m>> \o SortedSeq(S \ {m})

\* The last n elements of a sequence (Python s[-n:]).
LastN(s, n) ==
  IF Len(s) <= n THEN s ELSE SubSeq(s, Len(s) - n + 1, Len(s))

\* The first n elements of a sequence (Python s[:n]).
FirstN(s, n) ==
  IF Len(s) <= n THEN s ELSE SubSeq(s, 1, n)

----------------------------------------------------------------------------
(* Detections: [x1, y1, x2, y2, conf] as produced by YOLODetector.detect,  *)
(* integer pixel coordinates, conf in percent.                              *)

BoxA == <<220, 250, 300, 350, 90>>    \* centre (260, 300), outside the default zone
BoxB == <<280, 250, 360, 350, 80>>    \* centre (320, 300), 60 px from A's, inside
BoxC == <<380, 250, 460, 350, 70>>    \* centre (420, 300), 100 px from B's, inside
BoxD == <<260, 250, 340, 350, 60>>    \* centre (300, 300), 40 px from A's, 20 from B's
BoxE == <<160, 250, 240, 350, 50>>    \* centre (200, 300), 60 px from A's, 120 from B's

\* A second box around A's centre (260, 300).
BoxA2 == <<210, 240, 310, 360, 85>>

\* A detection without a confidence value: the four box coordinates of A.
BoxNoConf == <<220, 250, 300, 350>>

\* The detection lists a tracker call is given.
DetLists ==
  { <<>>, <<BoxA>>, <<BoxB>>, <<BoxC>>, <<BoxA, BoxC>>, <<BoxB, BoxA>>,
    <<BoxD, BoxE>>, <<BoxNoConf>> }

\* The detection lists a get_tracks_with_boxes call is given.
BoxesDetLists == { <<>>, <<BoxB>>, <<BoxA, BoxC>>, <<BoxNoConf>> }

\* Two detections of one call with the same centroid.
TwinDetLists == { <<BoxA, BoxA2>> }

\* int((a + b) / 2.0) for non-negative pixel coordinates.
Centroid(det) == << (det[1] + det[3]) \div 2, (det[2] + det[4]) \div 2 >>

\* The squared Euclidean distance; sqrt is monotone, so comparisons of
\* distances are comparisons of these.
DistSq(p, q) == (p[1] - q[1]) * (p[1] - q[1]) + (p[2] - q[2]) * (p[2] - q[2])

----------------------------------------------------------------------------
(* ObjectTracker.  The operators work on a record T of the tracker's       *)
(* fields (and the two ghost logs register/update feed).                    *)

TrackerInit ==
  [ next_object_id |-> 0,
    objects        |-> <<>>,
    disappeared    |-> <<>>,
    track_history  |-> <<>>,
    g_assigned     |-> <<>>,
    g_full         |-> <<>> ]

TrackerNow ==
  [ next_object_id |-> next_object_id,
    objects        |-> objects,
    disappeared    |-> disappeared,
    track_history  |-> track_history,
    g_assigned     |-> g_assigned,
    g_full         |-> g_full ]

\* A mutant of register: the id counter is not advanced.
register_noadvance(T, centroid) ==
  LET id == T.next_object_id IN
  [ T EXCEPT !.objects       = (id :> centroid) @@ @,
             !.disappeared   = (id :> 0) @@ @,
             !.track_history = (id :> <<centroid>>) @@ @,
             !.g_assigned    = Append(@, id),
             !.g_full        = (id :> <<centroid>>) @@ @ ]

register(T, centroid) ==
  LET id == T.next_object_id IN
  [ T EXCEPT !.objects        = (id :> centroid) @@ @,
             !.disappeared    = (id :> 0) @@ @,
             !.track_history  = (id :> <<centroid>>) @@ @,
             !.next_object_id = @ + 1,
             !.g_assigned     = Append(@, id),
             !.g_full         = (id :> <<centroid>>) @@ @ ]

Without(f, k) == [x \in (DOMAIN f) \ {k} |-> f[x]]

\* A mutant of deregister: the track's history is left behind.
deregister_keeps_history(T, object_id) ==
  [ T EXCEPT !.objects       = Without(@, object_id),
             !.disappeared   = Without(@, object_id),
             !.g_full        = Without(@, object_id) ]

deregister(T, object_id) ==
  [ T EXCEPT !.objects       = Without(@, object_id),
             !.disappeared   = Without(@, object_id),
             !.track_history = IF object_id \in DOMAIN @
                                 THEN Without(@, object_id) ELSE @,
             !.g_full        = Without(@, object_id) ]

\* A mutant of the eviction test: evicts one cycle early.
Expired_early(count) == count >= max_disappeared

\* self.disappeared[object_id] > self.max_disappeared
Expired(count) == count > max_disappeared

\* The body of both ageing loops: count one missed cycle, evict past the
\* threshold.
AgeTrack(T, object_id) ==
  LET T1 == [T EXCEPT !.disappeared[object_id] = @ + 1] IN
  IF Expired(T1.disappeared[object_id]) THEN deregister(T1, object_id) ELSE T1

RECURSIVE AgeAll(_, _)
AgeAll(T, ids) ==
  IF ids = <<>> THEN T ELSE AgeAll(AgeTrack(T, Head(ids)), Tail(ids))

\* A mutant of the registration loop: the last centroid is registered first.
RECURSIVE RegisterAll_reversed(_, _)
RegisterAll_reversed(T, centroids) ==
  IF centroids = <<>> THEN T
  ELSE register(RegisterAll_reversed(T, Tail(centroids)), Head(centroids))

\* for i in range(len(input_centroids)): self.register(input_centroids[i])
RECURSIVE RegisterAll(_, _)
RegisterAll(T, centroids) ==
  IF centroids = <<>> THEN T
  ELSE RegisterAll(register(T, Head(centroids)), Tail(centroids))

\* A mutant of the history bound: keeps the oldest entries, not the newest.
TruncateHistory_oldest(h) == IF Len(h) > HistoryCap THEN FirstN(h, HistoryCap) ELSE h

\* if len(h) > 30: h = h[-30:]
TruncateHistory(h) == IF Len(h) > HistoryCap THEN LastN(h, HistoryCap) ELSE h

\* A mutant of the match branch: the missed cycles are not forgotten.
MatchTrack_keeps_count(T, object_id, centroid) ==
  [ T EXCEPT !.objects[object_id]       = centroid,
             !.track_history[object_id] = TruncateHistory(Append(@, centroid)),
             !.g_full[object_id]        = Append(@, centroid) ]

\* The match branch: the track takes the detection's centroid.
MatchTrack(T, object_id, centroid) ==
  [ T EXCEPT !.objects[object_id]       = centroid,
             !.disappeared[object_id]   = 0,
             !.track_history[object_id] = TruncateHistory(Append(@, centroid)),
             !.g_full[object_id]        = Append(@, centroid) ]

\* list(self.objects.keys()): the OrderedDict holds the ids in insertion
\* order; keys are inserted by register alone, with the increasing
\* next_object_id, so that order is the ascending one.
ObjectIds(T) == SortedSeq(DOMAIN T.objects)

\* D = dist.cdist(object_centroids, input_centroids), squared.
DistMatrix(T, input_centroids) ==
  LET object_ids == ObjectIds(T) IN
  [r \in 1..Len(object_ids) |->
     [c \in 1..Len(input_centroids) |->
        DistSq(T.objects[object_ids[r]], input_centroids[c])]]

\* D.min(axis=1)
RowMin(D) ==
  [r \in DOMAIN D |->
     CHOOSE m \in Range(D[r]) : \A v \in Range(D[r]) : m <= v]

\* D.argmin(axis=1): the first column holding the row's minimum.
ArgMin(D) ==
  LET rmin == RowMin(D) IN
  [r \in DOMAIN D |->
     CHOOSE c \in DOMAIN D[r] :
        /\ D[r][c] = rmin[r]
        /\ \A c2 \in DOMAIN D[r] : D[r][c2] = rmin[r] => c <= c2]

\* The orders of the rows in S that are ascending in key, as sequences.
RECURSIVE Orders(_, _)
Orders(S, key) ==
  IF S = {} THEN { <<>> }
  ELSE UNION { { <<r>> \o t : t \in Orders(S \ {r}, key) } :
               r \in { q \in S : \A o \in S : key[q] <= key[o] } }

\* A mutant of the row order: the rows come in any order.
RowOrders_unsorted(D) == Orders(1..Len(D), [r \in 1..Len(D) |-> 0])

\* D.min(axis=1).argsort(): the rows in ascending order of their minimum.
\* numpy's default sort kind is not stable, so rows with equal minima may
\* come in either order: every sorted order is a possible result.
RowOrders(D) == Orders(1..Len(D), RowMin(D))

\* A mutant of the gate: a pair at exactly 100 px is accepted.
WithinGate_inclusive(dsq) == dsq <= GateSq

\* D[row, col] < 100
WithinGate(dsq) == dsq < GateSq

\* A mutant of the skip test: a column already taken is not skipped.
Claimed_rows_only(row, col, used_rows, used_cols) == row \in used_rows

\* if row in used_rows or col in used_cols: continue
Claimed(row, col, used_rows, used_cols) == row \in used_rows \/ col \in used_cols

\* The greedy loop over zip(rows, cols): the accepted (row, col) pairs.
RECURSIVE Greedy(_, _, _, _, _, _)
Greedy(D, rows, cols, k, used_rows, used_cols) ==
  IF k > Len(rows) THEN {}
  ELSE
    LET row == rows[k]
        col == cols[row]
    IN IF Claimed(row, col, used_rows, used_cols)
         THEN Greedy(D, rows, cols, k + 1, used_rows, used_cols)
       ELSE IF WithinGate(D[row][col])
         THEN {<<row, col>>} \cup
              Greedy(D, rows, cols, k + 1, used_rows \cup {row}, used_cols \cup {col})
       ELSE Greedy(D, rows, cols, k + 1, used_rows, used_cols)

RECURSIVE MatchAll(_, _, _, _)
MatchAll(T, object_ids, input_centroids, pairs) ==
  IF pairs = {} THEN T
  ELSE LET p == CHOOSE q \in pairs : TRUE IN
       MatchAll(MatchTrack(T, object_ids[p[1]], input_centroids[p[2]]),
                object_ids, input_centroids, pairs \ {p})

\* ObjectTracker.update with the row order the sort produced.  The result
\* is the tracker after the call, the set of ids the call matched and the
\* accepted pairs as <<track id, index of the detection>>.
update(T, detections, rows) ==
  IF Len(detections) = 0
    THEN [T |-> AgeAll(T, SortedSeq(DOMAIN T.disappeared)), matched |-> {},
          pairs |-> {}]
  ELSE
    LET input_centroids == [i \in 1..Len(detections) |-> Centroid(detections[i])] IN
    IF DOMAIN T.objects = {}
      THEN [T |-> RegisterAll(T, input_centroids), matched |-> {}, pairs |-> {}]
    ELSE
      LET object_ids  == ObjectIds(T)
          D           == DistMatrix(T, input_centroids)
          pairs       == Greedy(D, rows, ArgMin(D), 1, {}, {})
          used_rows   == {p[1] : p \in pairs}
          used_cols   == {p[2] : p \in pairs}
          T1          == MatchAll(T, object_ids, input_centroids, pairs)
          unused_rows == (1..Len(object_ids)) \ used_rows
          T2          == AgeAll(T1, [i \in 1..Cardinality(unused_rows) |->
                                       object_ids[SortedSeq(unused_rows)[i]]])
          unused_cols == SortedSeq((1..Len(input_centroids)) \ used_cols)
          T3          == RegisterAll(T2, [i \in 1..Len(unused_cols) |->
                                            input_centroids[unused_cols[i]]])
      IN [T |-> T3, matched |-> {object_ids[r] : r \in used_rows},
          pairs |-> {<<object_ids[p[1]], p[2]>> : p \in pairs}]

\* The row orders update may see for these detections.
UpdateOrders(T, detections) ==
  IF Len(detections) = 0 \/ DOMAIN T.objects = {}
    THEN {<<>>}
    ELSE RowOrders(DistMatrix(T, [i \in 1..Len(detections) |-> Centroid(detections[i])]))

\* get_tracks_with_boxes, second pass: the id of the nearest track within
\* 50 px of the detection (the first such track on ties), or -1 for None.
\* A mutant of the box gate: a track at the detection's own centroid is not
\* accepted.
WithinBoxGate_apart(d) == 0 < d /\ d < BoxGateSq

\* d < 50
WithinBoxGate(d) == d < BoxGateSq

RECURSIVE NearestTrack(_, _, _, _, _)
NearestTrack(T, ids, c, min_dist, matched_id) ==
  IF ids = <<>> THEN matched_id
  ELSE LET d == DistSq(c, T.objects[Head(ids)]) IN
       IF (min_dist = -1 \/ d < min_dist) /\ WithinBoxGate(d)
         THEN NearestTrack(T, Tail(ids), c, d, Head(ids))
         ELSE NearestTrack(T, Tail(ids), c, min_dist, matched_id)

RECURSIVE Relabel(_, _)
Relabel(T, detections) ==
  IF detections = <<>> THEN <<>>
  ELSE LET det == Head(detections)
           id  == NearestTrack(T, ObjectIds(T), Centroid(det), -1, -1)
       IN (IF id # -1 THEN << <<det[1], det[2], det[3], det[4], det[5], id>> >>
                      ELSE <<>>)
          \o Relabel(T, Tail(detections))

\* x1, y1, x2, y2, conf = det[:5]: unpacking into five names raises
\* ValueError when the detection holds fewer than five values.
Unpacks5(det) == Len(det) >= 5

\* ObjectTracker.get_tracks_with_boxes: an empty list returns at once,
\* before update is called.  Otherwise update runs first; the loop over the
\* detections then raises at the first one that does not unpack.
get_tracks_with_boxes(T, detections, rows) ==
  IF Len(detections) = 0
    THEN [T |-> T, matched |-> {}, pairs |-> {}, updated |-> FALSE,
          raised |-> FALSE, tracks |-> <<>>]
  ELSE
    LET u == update(T, detections, rows) IN
    IF \E i \in 1..Len(detections) : ~Unpacks5(detections[i])
      THEN [T |-> u.T, matched |-> u.matched, pairs |-> u.pairs,
            updated |-> TRUE, raised |-> TRUE, tracks |-> <<>>]
      ELSE [T |-> u.T, matched |-> u.matched, pairs |-> u.pairs,
            updated |-> TRUE, raised |-> FALSE,
            tracks |-> Relabel(u.T, detections)]

\* The ghost bookkeeping of one update call: which ids missed, which left.
MissesAfter(T0, T1, matched) ==
  [id \in Range(T1.g_assigned) |->
     IF id \notin DOMAIN T0.objects THEN
        (IF id \in DOMAIN g_misses THEN g_misses[id] ELSE 0)
     ELSE IF id \in matched THEN 0
     ELSE g_misses[id] + 1]

SetTracker(T) ==
  /\ next_object_id' = T.next_object_id
  /\ objects' = T.objects
  /\ disappeared' = T.disappeared
  /\ track_history' = T.track_history
  /\ g_assigned' = T.g_assigned
  /\ g_full' = T.g_full

\* One call of tracker.update(detections).
Update(detections) ==
  \E rows \in UpdateOrders(TrackerNow, detections) :
    LET u == update(TrackerNow, detections, rows) IN
    /\ SetTracker(u.T)
    /\ g_misses' = MissesAfter(TrackerNow, u.T, u.matched)
    /\ g_dereg' = g_dereg \cup ((DOMAIN objects) \ (DOMAIN u.T.objects))
    /\ g_cycles' = g_cycles + 1
    /\ g_last' = [op |-> "update", n |-> Len(detections), updated |-> TRUE,
                  detections |-> detections, pairs |-> u.pairs,
                  raised |-> FALSE, tracks |-> <<>>]

\* One call of tracker.get_tracks_with_boxes(detections), update's sort
\* giving the row order rows.
GetTracksWithBoxesVia(detections, rows) ==
  LET g == get_tracks_with_boxes(TrackerNow, detections, rows) IN
  /\ SetTracker(g.T)
  /\ g_misses' = IF g.updated THEN MissesAfter(TrackerNow, g.T, g.matched)
                              ELSE g_misses
  /\ g_dereg' = g_dereg \cup ((DOMAIN objects) \ (DOMAIN g.T.objects))
  /\ g_cycles' = g_cycles + 1
  /\ g_last' = [op |-> "get_tracks_with_boxes", n |-> Len(detections),
                updated |-> g.updated, detections |-> detections,
                pairs |-> g.pairs, raised |-> g.raised, tracks |-> g.tracks]

\* One call of tracker.get_tracks_with_boxes(detections).
GetTracksWithBoxes(detections) ==
  \E rows \in UpdateOrders(TrackerNow, detections) :
    GetTracksWithBoxesVia(detections, rows)

----------------------------------------------------------------------------
(* PolygonManager.  A stored coordinate is a rational <<num, den>> (den >   *)
(* 0, lowest terms): update_polygon multiplies by frame/original ratios.    *)

RECURSIVE GCD(_, _)
GCD(a, b) == IF b = 0 THEN a ELSE GCD(b, a % b)

Abs(a) == IF a < 0 THEN -a ELSE a

LCM(a, b) == (a * b) \div GCD(a, b)

Rat(n, d) == LET g == GCD(Abs(n), d) IN IF n = 0 THEN <<0, 1>> ELSE <<n \div g, d \div g>>

\* A list of integer [x, y] pairs as stored coordinates.
Plain(coordinates) ==
  [i \in 1..Len(coordinates) |-> <<Rat(coordinates[i][1], 1), Rat(coordinates[i][2], 1)>>]

\* [[x * scale_x, y * scale_y] for x, y in coordinates], scale = f / o.
Scaled(coordinates, fw, ow, fh, oh) ==
  [i \in 1..Len(coordinates) |->
     <<Rat(coordinates[i][1] * fw, ow), Rat(coordinates[i][2] * fh, oh)>>]

PolygonManagerEmpty ==
  [coordinates |-> <<>>, polygon |-> <<>>, previous_states |-> <<>>]

PolyNow ==
  [coordinates |-> pm_coordinates, polygon |-> pm_polygon,
   previous_states |-> previous_states]

\* A mutant of clear_states: nothing is cleared.
clear_states_none(P) == P

\* PolygonManager.clear_states
clear_states(P) == [P EXCEPT !.previous_states = <<>>]

\* PolygonManager.update_polygon; frame_size and original_size are <<>> for
\* None, <<w, h>> otherwise.
update_polygon(P, coordinates, frame_size, original_size) ==
  LET stored ==
        IF frame_size # <<>> /\ original_size # <<>>
          THEN IF original_size[1] > 0 /\ original_size[2] > 0
                 THEN Scaled(coordinates, frame_size[1], original_size[1],
                             frame_size[2], original_size[2])
                 ELSE Plain(coordinates)
          ELSE Plain(coordinates)
      P1 == [P EXCEPT !.coordinates = stored]
      P2 == IF Len(stored) >= 3 THEN [P1 EXCEPT !.polygon = stored] ELSE P1
  IN clear_states(P2)

\* PolygonManager.__init__(coordinates)
PolygonManager(coordinates) ==
  LET P == [PolygonManagerEmpty EXCEPT !.coordinates = Plain(coordinates)] IN
  IF Len(coordinates) >= 3 THEN update_polygon(P, coordinates, <<>>, <<>>) ELSE P

\* shapely's Polygon.contains(Point(x, y)) for a simple ring: the point is
\* in the interior (a point of the boundary is not contained).  The ring
\* and the point are brought to a common integer grid first.
RECURSIVE DenLCM(_, _, _)
DenLCM(ring, axis, i) ==
  IF i > Len(ring) THEN 1 ELSE LCM(ring[i][axis][2], DenLCM(ring, axis, i + 1))

Cross(a, b, p) == (b[1] - a[1]) * (p[2] - a[2]) - (b[2] - a[2]) * (p[1] - a[1])

OnSegment(a, b, p) ==
  /\ Cross(a, b, p) = 0
  /\ Min(a[1], b[1]) <= p[1] /\ p[1] <= Max(a[1], b[1])
  /\ Min(a[2], b[2]) <= p[2] /\ p[2] <= Max(a[2], b[2])

RayCrosses(a, b, p) ==
  /\ (a[2] > p[2]) # (b[2] > p[2])
  /\ IF b[2] > a[2]
       THEN (p[1] - a[1]) * (b[2] - a[2]) < (p[2] - a[2]) * (b[1] - a[1])
       ELSE (p[1] - a[1]) * (b[2] - a[2]) > (p[2] - a[2]) * (b[1] - a[1])

Contains(ring, x, y) ==
  LET n  == Len(ring)
      dx == DenLCM(ring, 1, 1)
      dy == DenLCM(ring, 2, 1)
      v  == [i \in 1..n |-> << ring[i][1][1] * (dx \div ring[i][1][2]),
                               ring[i][2][1] * (dy \div ring[i][2][2]) >>]
      p  == <<x * dx, y * dy>>
      nx(i) == (i % n) + 1
  IN /\ \A i \in 1..n : ~OnSegment(v[i], v[nx(i)], p)
     /\ Cardinality({i \in 1..n : RayCrosses(v[i], v[nx(i)], p)}) % 2 = 1

\* PolygonManager.is_point_inside
is_point_inside(P, x, y) ==
  IF P.polygon = <<>> \/ Len(P.coordinates) < 3 THEN FALSE
  ELSE Contains(P.polygon, x, y)

\* PolygonManager.is_bbox_inside: the centre of the box, true division.
\* The centre ((x1 + x2) / 2, (y1 + y2) / 2) is tested on the doubled grid.
is_bbox_inside(P, bbox) ==
  IF Len(bbox) < 4 THEN FALSE
  ELSE IF P.polygon = <<>> \/ Len(P.coordinates) < 3 THEN FALSE
  ELSE Contains([i \in 1..Len(P.polygon) |->
                   << Rat(2 * P.polygon[i][1][1], P.polygon[i][1][2]),
                      Rat(2 * P.polygon[i][2][1], P.polygon[i][2][2]) >>],
                bbox[1] + bbox[3], bbox[2] + bbox[4])

\* A mutant of check_entry_exit: a track without a record counts as outside.
check_entry_exit_default_outside(P, track_id, inside_now) ==
  LET previous_inside == IF track_id \in DOMAIN P.previous_states
                           THEN P.previous_states[track_id] ELSE FALSE
      event == IF ~previous_inside /\ inside_now THEN "entry"
               ELSE IF previous_inside /\ ~inside_now THEN "exit"
               ELSE "none"
  IN [P |-> [P EXCEPT !.previous_states = (track_id :> inside_now) @@ @],
      event |-> event]

\* A mutant of check_entry_exit: the record is written on the first
\* observation only.
check_entry_exit_store_once(P, track_id, inside_now) ==
  LET event ==
        IF track_id \in DOMAIN P.previous_states
          THEN IF ~P.previous_states[track_id] /\ inside_now THEN "entry"
               ELSE IF P.previous_states[track_id] /\ ~inside_now THEN "exit"
               ELSE "none"
          ELSE "none"
  IN [P |-> IF track_id \in DOMAIN P.previous_states THEN P
            ELSE [P EXCEPT !.previous_states = (track_id :> inside_now) @@ @],
      event |-> event]

\* PolygonManager.check_entry_exit; the event None is "none".
check_entry_exit(P, track_id, inside_now) ==
  LET event ==
        IF track_id \in DOMAIN P.previous_states
          THEN IF ~P.previous_states[track_id] /\ inside_now THEN "entry"
               ELSE IF P.previous_states[track_id] /\ ~inside_now THEN "exit"
               ELSE "none"
          ELSE "none"
  IN [P |-> [P EXCEPT !.previous_states = (track_id :> inside_now) @@ @],
      event |-> event]

SetPoly(P) ==
  /\ pm_coordinates' = P.coordinates
  /\ pm_polygon' = P.polygon
  /\ previous_states' = P.previous_states

\* The last two events of a track, with a new one added.
PushEvent(log, track_id, event) ==
  IF event = "none" THEN log
  ELSE LET old == IF track_id \in DOMAIN log THEN log[track_id] ELSE <<>>
       IN (track_id :> LastN(Append(old, event), 2)) @@ log

\* The inputs of the zone detector's calls.
TrackIds == {0, 1}

ZoneSquare == << <<300, 200>>, <<900, 200>>, <<900, 500>>, <<300, 500>> >>

ZoneTriangle == << <<200, 200>>, <<600, 200>>, <<200, 600>> >>

ZoneTooShort == << <<300, 200>>, <<900, 200>> >>

ZoneCoordinates == {ZoneSquare, ZoneTriangle, ZoneTooShort}

FrameSize == <<FRAME_WIDTH, FRAME_HEIGHT>>

Sizes == { <<>>, <<2560, 1440>>, <<0, 0>> }

\* One call of check_entry_exit(track_id, inside_now).
CheckEntryExit(track_id, inside_now) ==
  LET r == check_entry_exit(PolyNow, track_id, inside_now) IN
  /\ SetPoly(r.P)
  /\ g_pm_ret' = r.event
  /\ g_pm_call' = [op |-> "check_entry_exit", track_id |-> track_id,
                   current_inside |-> inside_now,
                   first |-> track_id \notin DOMAIN g_pm_obs,
                   last_obs |-> IF track_id \in DOMAIN g_pm_obs
                                  THEN g_pm_obs[track_id] ELSE FALSE,
                   n |-> 0]
  /\ g_pm_obs' = (track_id :> inside_now) @@ g_pm_obs
  /\ g_pm_events' = PushEvent(g_pm_events, track_id, r.event)
  /\ g_pm_gen_events' = PushEvent(g_pm_gen_events, track_id, r.event)
  /\ UNCHANGED g_pm_reloads

\* One call of update_polygon(coordinates, frame_size, original_size).
UpdatePolygon(coordinates, frame_size, original_size) ==
  /\ SetPoly(update_polygon(PolyNow, coordinates, frame_size, original_size))
  /\ g_pm_ret' = "none"
  /\ g_pm_call' = [op |-> "update_polygon", track_id |-> 0,
                   current_inside |-> FALSE, first |-> FALSE, last_obs |-> FALSE,
                   n |-> Len(coordinates)]
  /\ g_pm_obs' = <<>>
  /\ g_pm_gen_events' = <<>>
  /\ g_pm_reloads' = Min(g_pm_reloads + 1, 2)
  /\ UNCHANGED g_pm_events

\* PolygonManager.get_coordinates
get_coordinates(P) == P.coordinates

\* Points at which membership is probed: inside the default zone, outside
\* it, on its edge, and inside the triangle only.
ProbePoints == { <<600, 350>>, <<100, 100>>, <<300, 300>>, <<250, 400>> }

PolyStart ==
  /\ pm_coordinates = <<>>
  /\ pm_polygon = <<>>
  /\ previous_states = <<>>
  /\ g_pm_call = [op |-> "init", track_id |-> 0, current_inside |-> FALSE,
                  first |-> FALSE, last_obs |-> FALSE, n |-> 0]
  /\ g_pm_ret = "none"
  /\ g_pm_obs = <<>>
  /\ g_pm_events = <<>>
  /\ g_pm_gen_events = <<>>
  /\ g_pm_reloads = 0

----------------------------------------------------------------------------
(* The frame cycle: the streaming endpoint's generate_frames with          *)
(* draw_detections_on_frame, and the detection service's process_frame.     *)

BoxB2  == <<340, 250, 420, 350, 85>>   \* centre (380, 300), 60 px from B's
BoxLow == <<280, 330, 360, 430, 75>>   \* centre (320, 380), below the mid line

\* A zone that holds B and B2 but neither A nor C.
ZoneNarrow == << <<300, 200>>, <<400, 200>>, <<400, 500>>, <<300, 500>> >>

\* What the detector returns in a detection cycle of the endpoint.
ApiDetLists == { <<>>, <<BoxA>>, <<BoxB>>, <<BoxB, BoxB2>>, <<BoxA, BoxC>> }

\* What the detector returns in a detection cycle of the service.
ServiceDetLists == { <<>>, <<BoxB>>, <<BoxLow>>, <<BoxA, BoxC>> }

\* The zone record the config store holds at start-up: <<>> for no record.
StoredZones == { <<>>, ZoneSquare, ZoneNarrow, ZoneTooShort }

\* settings.get_polygon_coords()
DefaultZone == ZoneSquare

CountersNow ==
  [ enter_count |-> enter_count, exit_count |-> exit_count,
    current_inside |-> current_inside, prev_inside_state |-> prev_inside_state,
    in_flags |-> in_flags, out_flags |-> out_flags, obs |-> <<>> ]

\* A mutant of the clamped decrement: min for max.
ClampedDecrement_min(n) == Min(0, n - 1)

\* max(0, current_inside - 1)
ClampedDecrement(n) == Max(0, n - 1)

\* A mutant of the counter update: an entry does not raise current_inside.
CountObservation_entry_not_inside(S, track_id, in_polygon) ==
  IF track_id \notin DOMAIN S.prev_inside_state
    THEN [ S EXCEPT !.prev_inside_state = (track_id :> in_polygon) @@ @,
                    !.current_inside = IF in_polygon THEN @ + 1 ELSE @,
                    !.obs = Append(@, [track_id |-> track_id, in_polygon |-> in_polygon,
                                       event |-> "none",
                                       saved |-> "none", detection |-> TRUE]) ]
  ELSE IF S.prev_inside_state[track_id] = FALSE /\ in_polygon = TRUE
    THEN [ S EXCEPT !.enter_count = @ + 1,
                    !.prev_inside_state[track_id] = TRUE,
                    !.obs = Append(@, [track_id |-> track_id, in_polygon |-> in_polygon,
                                       event |-> "entry",
                                       saved |-> "entry", detection |-> TRUE]) ]
  ELSE IF S.prev_inside_state[track_id] = TRUE /\ in_polygon = FALSE
    THEN [ S EXCEPT !.exit_count = @ + 1,
                    !.current_inside = ClampedDecrement(@),
                    !.prev_inside_state[track_id] = FALSE,
                    !.obs = Append(@, [track_id |-> track_id, in_polygon |-> in_polygon,
                                       event |-> "exit",
                                       saved |-> "exit", detection |-> TRUE]) ]
  ELSE [ S EXCEPT !.obs = Append(@, [track_id |-> track_id, in_polygon |-> in_polygon,
                                     event |-> "none",
                                       saved |-> "none", detection |-> TRUE]) ]

\* draw_detections_on_frame, "transitions + DB persist": one tracked box of
\* the cycle.  event is the transition counted, saved the counting event
\* whose save task is created, detection the save_detection task.
CountObservation(S, track_id, in_polygon) ==
  IF track_id \notin DOMAIN S.prev_inside_state
    THEN [ S EXCEPT !.prev_inside_state = (track_id :> in_polygon) @@ @,
                    !.current_inside = IF in_polygon THEN @ + 1 ELSE @,
                    !.obs = Append(@, [track_id |-> track_id, in_polygon |-> in_polygon,
                                       event |-> "none",
                                       saved |-> "none", detection |-> TRUE]) ]
  ELSE IF S.prev_inside_state[track_id] = FALSE /\ in_polygon = TRUE
    THEN [ S EXCEPT !.enter_count = @ + 1,
                    !.current_inside = @ + 1,
                    !.prev_inside_state[track_id] = TRUE,
                    !.obs = Append(@, [track_id |-> track_id, in_polygon |-> in_polygon,
                                       event |-> "entry",
                                       saved |-> "entry", detection |-> TRUE]) ]
  ELSE IF S.prev_inside_state[track_id] = TRUE /\ in_polygon = FALSE
    THEN [ S EXCEPT !.exit_count = @ + 1,
                    !.current_inside = ClampedDecrement(@),
                    !.prev_inside_state[track_id] = FALSE,
                    !.obs = Append(@, [track_id |-> track_id, in_polygon |-> in_polygon,
                                       event |-> "exit",
                                       saved |-> "exit", detection |-> TRUE]) ]
  ELSE [ S EXCEPT !.obs = Append(@, [track_id |-> track_id, in_polygon |-> in_polygon,
                                     event |-> "none",
                                       saved |-> "none", detection |-> TRUE]) ]

\* draw_detections_on_frame: the loop over the tracked boxes.
RECURSIVE draw_detections_on_frame(_, _, _)
draw_detections_on_frame(S, tracked_detections, P) ==
  IF tracked_detections = <<>> THEN S
  ELSE
    LET det == Head(tracked_detections)
        cx  == (det[1] + det[3]) \div 2
        cy  == (det[2] + det[4]) \div 2
        in_polygon == IF P.polygon # <<>> THEN is_point_inside(P, cx, cy) ELSE FALSE
    IN draw_detections_on_frame(CountObservation(S, det[6], in_polygon),
                                Tail(tracked_detections), P)

\* A mutant of the exit test: a track that never entered may exit.
MayExit_unentered(S, track_id) == track_id \notin S.out_flags

\* hasattr(self.tracker, f"in_{track_id}") and
\* not hasattr(self.tracker, f"out_{track_id}")
MayExit(S, track_id) == track_id \in S.in_flags /\ track_id \notin S.out_flags

\* process_frame, "COUNTERS": one tracked box against the mid line.  The
\* counters are changed and a save_detection task is created; no
\* save_counting_event task is.
CountCrossing(S, track_id, cy) ==
  LET mid_y == FRAME_HEIGHT \div 2 IN
  IF cy < mid_y /\ track_id \notin S.in_flags
    THEN [ S EXCEPT !.enter_count = @ + 1,
                    !.current_inside = @ + 1,
                    !.in_flags = @ \cup {track_id},
                    !.obs = Append(@, [track_id |-> track_id, in_polygon |-> FALSE,
                                       event |-> "entry",
                                       saved |-> "none", detection |-> TRUE]) ]
  ELSE IF cy > mid_y /\ MayExit(S, track_id)
    THEN [ S EXCEPT !.exit_count = @ + 1,
                    !.current_inside = ClampedDecrement(@),
                    !.out_flags = @ \cup {track_id},
                    !.obs = Append(@, [track_id |-> track_id, in_polygon |-> FALSE,
                                       event |-> "exit",
                                       saved |-> "none", detection |-> TRUE]) ]
  ELSE [ S EXCEPT !.obs = Append(@, [track_id |-> track_id, in_polygon |-> FALSE,
                                     event |-> "none",
                                       saved |-> "none", detection |-> TRUE]) ]

\* process_frame: the loop over the tracked boxes.
RECURSIVE process_tracked(_, _)
process_tracked(S, tracked_detections) ==
  IF tracked_detections = <<>> THEN S
  ELSE LET det == Head(tracked_detections) IN
       process_tracked(CountCrossing(S, det[6], (det[2] + det[4]) \div 2),
                       Tail(tracked_detections))

\* The tasks a detection cycle creates with create_task, from what it saw:
\* one _save_counting_event / save_counting_event per event it dispatched
\* and one _save_detection / save_detection per tracked detection.  A task
\* is known by what it writes, so a task created again while its like is
\* still unfinished is not told apart from it.
CreatedTasks(obs) ==
  { [kind |-> "counting", event_type |-> obs[i].saved, track_id |-> obs[i].track_id] :
      i \in {j \in 1..Len(obs) : obs[j].saved # "none"} }
  \cup
  { [kind |-> "detection", event_type |-> "none", track_id |-> obs[i].track_id] :
      i \in {j \in 1..Len(obs) : obs[j].detection} }

SetCounters(S) ==
  /\ save_tasks' = save_tasks \cup CreatedTasks(S.obs)
  /\ UNCHANGED g_save
  /\ enter_count' = S.enter_count
  /\ exit_count' = S.exit_count
  /\ current_inside' = S.current_inside
  /\ prev_inside_state' = S.prev_inside_state
  /\ in_flags' = S.in_flags
  /\ out_flags' = S.out_flags
  /\ g_obs' = [i \in 1..Len(S.obs) |->
                 [track_id |-> S.obs[i].track_id, in_polygon |-> S.obs[i].in_polygon,
                  event |-> S.obs[i].event, saved |-> S.obs[i].saved,
                  detection |-> S.obs[i].detection,
                  first |-> /\ S.obs[i].track_id \notin g_seen
                            /\ \A j \in 1..(i - 1) : S.obs[j].track_id # S.obs[i].track_id]]
  /\ g_seen' = g_seen \cup {S.obs[i].track_id : i \in 1..Len(S.obs)}

\* The zone the process starts with: the stored record's coordinates, the
\* default ones when the store holds no record.
StartZone(stored) == PolygonManager(IF stored = <<>> THEN DefaultZone ELSE stored)

\* The zone record as a process first finds it in the store.
StoreHolds(stored) ==
  /\ store_coordinates' = stored
  /\ store_updated_at' = IF stored = <<>> THEN 0 ELSE 2

\* video.py get_instances: the handler, detector, tracker and zone are made
\* on the first request.  What video_handler.start() returns is not looked
\* at.
GetInstances ==
  /\ program = "none"
  /\ program' = "api"
  /\ \E started \in {"true", "false"} : source_started' = started
  /\ \E stored \in StoredZones :
       /\ SetPoly(StartZone(stored))
       /\ StoreHolds(stored)
  /\ g_cycle' = [kind |-> "start", n |-> 0,
                 published |-> "none"]
  /\ UNCHANGED <<frame_count, enter_count, exit_count, current_inside,
                 prev_inside_state, in_flags, out_flags, g_obs, g_seen,
                 save_tasks, g_save>>
  /\ UNCHANGED <<g_pm_call, g_pm_ret, g_pm_obs, g_pm_events, g_pm_gen_events,
                 g_pm_reloads>>
  /\ UNCHANGED <<last_polygon_update, service_original_size, polygon_config,
                 g_stop_called, g_shutdown>>
  /\ UNCHANGED trackerVars
  /\ UNCHANGED streamVars
  /\ UNCHANGED cfgVars
  /\ UNCHANGED loopVars

\* A mutant of the frame skip: detection runs on every frame.
IsDetectionFrame_every(count) == TRUE

\* if frame_count % settings.FRAME_SKIP == 0, on the counter just advanced.
IsDetectionFrame(count) == count % FRAME_SKIP = 0

\* generate_frames: read() gave no frame; the loop sleeps and retries.
ApiNoFrame ==
  /\ program = "api"
  /\ g_cycle' = [kind |-> "noframe", n |-> 0,
                 published |-> "none"]
  /\ g_obs' = <<>>
  /\ UNCHANGED <<program, frame_count, enter_count, exit_count, current_inside,
                 prev_inside_state, in_flags, out_flags, g_seen,
                 save_tasks, g_save>>
  /\ UNCHANGED <<trackerVars, polyVars>>
  /\ UNCHANGED <<streamVars, svcVars>>
  /\ UNCHANGED cfgVars
  /\ UNCHANGED loopVars

\* generate_frames: a frame on which detection is skipped.
ApiSkipFrame ==
  /\ program = "api"
  /\ frame_count < MaxFrames
  /\ ~IsDetectionFrame(frame_count + 1)
  /\ frame_count' = frame_count + 1
  /\ g_cycle' = [kind |-> "skip", n |-> 0,
                 published |-> "raw"]
  /\ g_obs' = <<>>
  /\ UNCHANGED <<program, enter_count, exit_count, current_inside,
                 prev_inside_state, in_flags, out_flags, g_seen,
                 save_tasks, g_save>>
  /\ UNCHANGED <<trackerVars, polyVars>>
  /\ UNCHANGED <<streamVars, svcVars>>
  /\ UNCHANGED cfgVars
  /\ UNCHANGED loopVars

\* generate_frames: a detection frame: detect, get_tracks_with_boxes,
\* draw_detections_on_frame.
ApiDetectFrame ==
  /\ program = "api"
  /\ frame_count < MaxFrames
  /\ IsDetectionFrame(frame_count + 1)
  /\ frame_count' = frame_count + 1
  /\ \E detections \in ApiDetLists :
       \E rows \in UpdateOrders(TrackerNow, detections) :
         LET g == get_tracks_with_boxes(TrackerNow, detections, rows) IN
         /\ GetTracksWithBoxesVia(detections, rows)
         /\ SetCounters(draw_detections_on_frame(CountersNow, g.tracks, PolyNow))
         /\ g_cycle' = [kind |-> "detect", n |-> Len(detections),
                        published |-> "annotated"]
  /\ UNCHANGED program
  /\ UNCHANGED polyVars
  /\ UNCHANGED <<streamVars, svcVars>>
  /\ UNCHANGED cfgVars
  /\ UNCHANGED loopVars

\* reload_polygon's except branch: the zone used when the store cannot be
\* read and no zone is loaded yet.
FallbackZone == << <<100, 100>>, <<500, 100>>, <<500, 400>>, <<100, 400>> >>

\* What cap.get(CAP_PROP_FRAME_WIDTH / HEIGHT) gives: the native size, or
\* zeros when the backend does not know it.
NativeSizes == { <<2560, 1440>>, <<0, 0>> }

\* reload_polygon as initialize calls it (no zone loaded yet).  With a
\* record in the store the zone is made from it and its updated_at is
\* remembered; with none the default zone is inserted and loaded, and a
\* second clock reading is remembered, which is the stored one (same_tick)
\* or a later one; when the store cannot be read the fallback zone is used
\* and nothing is remembered.  Stored times are even numbers, a clock
\* reading between two of them is odd.
reload_polygon(stored, reachable, same_tick) ==
  IF ~reachable
    THEN [ P |-> PolygonManager(FallbackZone), coordinates |-> stored,
           updated_at |-> IF stored = <<>> THEN 0 ELSE 2, last |-> 0 ]
  ELSE IF stored # <<>>
    THEN [ P |-> PolygonManager(stored), coordinates |-> stored,
           updated_at |-> 2, last |-> 2 ]
  ELSE [ P |-> PolygonManager(DefaultZone), coordinates |-> DefaultZone,
         updated_at |-> 2, last |-> IF same_tick THEN 2 ELSE 3 ]

\* run_detection.py main with initialize: the store is pinged, the Frame
\* Source started, the zone loaded by reload_polygon, the detector and the
\* tracker made.  A step that raises ends initialize, and main logs the
\* error and calls sys.exit(1).
ServiceInitialize ==
  /\ program = "none"
  /\ \E outcome \in {"ok", "db_failed", "stream_failed", "detector_failed"} :
       IF outcome = "db_failed"
         THEN /\ program' = "fatal"
              /\ UNCHANGED <<polyVars, svcVars>>
       ELSE IF outcome = "stream_failed"
         THEN /\ program' = "fatal"
              /\ source_started' = "false"
              /\ UNCHANGED polyVars
              /\ UNCHANGED <<store_coordinates, store_updated_at, last_polygon_update,
                             service_original_size, polygon_config, g_stop_called,
                             g_shutdown>>
       ELSE /\ program' = IF outcome = "ok" THEN "service" ELSE "fatal"
            /\ source_started' = "true"
            /\ \E size \in NativeSizes : service_original_size' = size
            /\ \E stored \in StoredZones, reachable \in BOOLEAN, same_tick \in BOOLEAN :
                 LET r == reload_polygon(stored, reachable, same_tick) IN
                 /\ SetPoly(r.P)
                 /\ store_coordinates' = r.coordinates
                 /\ store_updated_at' = r.updated_at
                 /\ last_polygon_update' = r.last
            /\ UNCHANGED <<g_pm_call, g_pm_ret, g_pm_obs, g_pm_events, g_pm_gen_events,
                           g_pm_reloads>>
            /\ UNCHANGED <<polygon_config, g_stop_called, g_shutdown>>
  /\ g_cycle' = [kind |-> "start", n |-> 0,
                 published |-> "none"]
  /\ UNCHANGED <<frame_count, enter_count, exit_count, current_inside,
                 prev_inside_state, in_flags, out_flags, g_obs, g_seen,
                 save_tasks, g_save>>
  /\ UNCHANGED trackerVars
  /\ UNCHANGED streamVars
  /\ UNCHANGED cfgVars
  /\ UNCHANGED loopVars

\* run: read() gave no frame.
ServiceNoFrame ==
  /\ program = "service"
  /\ g_cycle' = [kind |-> "noframe", n |-> 0,
                 published |-> "none"]
  /\ g_obs' = <<>>
  /\ UNCHANGED <<program, frame_count, enter_count, exit_count, current_inside,
                 prev_inside_state, in_flags, out_flags, g_seen,
                 save_tasks, g_save>>
  /\ UNCHANGED <<trackerVars, polyVars>>
  /\ UNCHANGED <<streamVars, svcVars>>
  /\ UNCHANGED cfgVars
  /\ UNCHANGED loopVars

\* process_frame on a frame on which detection is skipped.
ServiceSkipFrame ==
  /\ program = "service"
  /\ frame_count < MaxFrames
  /\ ~IsDetectionFrame(frame_count + 1)
  /\ frame_count' = frame_count + 1
  /\ g_cycle' = [kind |-> "skip", n |-> 0,
                 published |-> "raw"]
  /\ g_obs' = <<>>
  /\ UNCHANGED <<program, enter_count, exit_count, current_inside,
                 prev_inside_state, in_flags, out_flags, g_seen,
                 save_tasks, g_save>>
  /\ UNCHANGED <<trackerVars, polyVars>>
  /\ UNCHANGED <<streamVars, svcVars>>
  /\ UNCHANGED cfgVars
  /\ UNCHANGED loopVars

\* process_frame on a detection frame: with no detections it returns
\* before the tracker is called.
ServiceDetectFrame ==
  /\ program = "service"
  /\ frame_count < MaxFrames
  /\ IsDetectionFrame(frame_count + 1)
  /\ frame_count' = frame_count + 1
  /\ \E detections \in ServiceDetLists :
       IF Len(detections) = 0
         THEN /\ g_cycle' = [kind |-> "detect", n |-> 0,
                             published |-> "raw"]
              /\ g_obs' = <<>>
              /\ UNCHANGED <<enter_count, exit_count, current_inside,
                             prev_inside_state, in_flags, out_flags, g_seen,
                 save_tasks, g_save>>
              /\ UNCHANGED trackerVars
         ELSE \E rows \in UpdateOrders(TrackerNow, detections) :
                LET g == get_tracks_with_boxes(TrackerNow, detections, rows) IN
                /\ GetTracksWithBoxesVia(detections, rows)
                /\ SetCounters(process_tracked(CountersNow, g.tracks))
                /\ g_cycle' = [kind |-> "detect", n |-> Len(detections),
                               published |-> "annotated"]
  /\ UNCHANGED program
  /\ UNCHANGED polyVars
  /\ UNCHANGED <<streamVars, svcVars>>
  /\ UNCHANGED cfgVars
  /\ UNCHANGED loopVars

\* generate_frames: cv2.resize raises on the frame read; the except branch
\* of the loop logs, sleeps and continues.
ApiFrameFails ==
  /\ program = "api"
  /\ frame_count < MaxFrames
  /\ frame_count' = frame_count + 1
  /\ g_cycle' = [kind |-> "error", n |-> 0,
                 published |-> "none"]
  /\ g_obs' = <<>>
  /\ UNCHANGED <<program, enter_count, exit_count, current_inside,
                 prev_inside_state, in_flags, out_flags, g_seen,
                 save_tasks, g_save>>
  /\ UNCHANGED <<trackerVars, polyVars>>
  /\ UNCHANGED <<streamVars, svcVars>>
  /\ UNCHANGED cfgVars
  /\ UNCHANGED loopVars

\* A mutant of the save coroutines: a failed insert ends the program.
SaveFailed_propagates(prog) == "ended"

\* except Exception as e: logger.error(...): the exception of a failed
\* insert ends in the coroutine; the program it was created by goes on.
SaveFailed(prog) == prog

\* One save task runs to its end: _save_counting_event / _save_detection
\* (video.py) or save_detection (run_detection.py) builds the document and
\* awaits insert_one, which stores it or raises.
SaveTaskRuns ==
  /\ program \in {"api", "service"}
  /\ \E task \in save_tasks, stored \in BOOLEAN :
       /\ save_tasks' = save_tasks \ {task}
       /\ g_save' = IF stored THEN "stored" ELSE "failed"
       /\ program' = IF stored THEN program ELSE SaveFailed(program)
  /\ UNCHANGED <<frame_count, enter_count, exit_count, current_inside,
                 prev_inside_state, in_flags, out_flags, g_cycle, g_obs, g_seen>>
  /\ UNCHANGED <<trackerVars, polyVars>>
  /\ UNCHANGED <<streamVars, svcVars>>
  /\ UNCHANGED cfgVars
  /\ UNCHANGED loopVars

\* run's finally branch: polygon_task.cancel() and cleanup(), which calls
\* stop() on the Frame Source.
Cleanup ==
  /\ program' = "ended"
  /\ polygon_config' = [pending |-> FALSE, coordinates |-> <<>>, updated_at |-> 0]
  /\ g_stop_called' = TRUE

\* process_frame: cv2.resize, which is outside its try, raises on the frame
\* read; the exception leaves process_frame and the while loop of run, whose
\* except branch logs it and whose finally branch cleans up.
ServiceFrameFails ==
  /\ program = "service"
  /\ Cleanup
  /\ g_cycle' = [kind |-> "error", n |-> 0,
                 published |-> "none"]
  /\ g_obs' = <<>>
  /\ UNCHANGED <<frame_count, enter_count, exit_count, current_inside,
                 prev_inside_state, in_flags, out_flags, g_seen,
                 save_tasks, g_save>>
  /\ UNCHANGED <<store_coordinates, store_updated_at, last_polygon_update,
                 service_original_size, source_started, g_shutdown>>
  /\ UNCHANGED <<trackerVars, polyVars, streamVars>>
  /\ UNCHANGED cfgVars
  /\ UNCHANGED loopVars

\* main's signal_handler sets service.running = False (or KeyboardInterrupt
\* reaches run); the while loop of run ends and the finally branch cleans up.
ServiceShutdown ==
  /\ program = "service"
  /\ Cleanup
  /\ g_shutdown' = TRUE
  /\ g_cycle' = [kind |-> "shutdown", n |-> 0,
                 published |-> "none"]
  /\ g_obs' = <<>>
  /\ UNCHANGED <<frame_count, enter_count, exit_count, current_inside,
                 prev_inside_state, in_flags, out_flags, g_seen,
                 save_tasks, g_save>>
  /\ UNCHANGED <<store_coordinates, store_updated_at, last_polygon_update,
                 service_original_size, source_started>>
  /\ UNCHANGED <<trackerVars, polyVars, streamVars>>
  /\ UNCHANGED cfgVars
  /\ UNCHANGED loopVars

\* The coordinates update_area accepts: PolygonConfigUpdate wants at least
\* 3 points.
AreaUpdates == { ZoneSquare, ZoneTriangle, ZoneNarrow }

\* routers/config.py update_area: the record, if there is one, gets the new
\* coordinates and a new updated_at.
UpdateArea ==
  /\ program \in {"api", "service"}
  /\ store_coordinates # <<>>
  /\ store_updated_at < 2 + 2 * MaxUpdates
  /\ \E coordinates \in AreaUpdates : store_coordinates' = coordinates
  /\ store_updated_at' = store_updated_at + 2
  /\ UNCHANGED <<last_polygon_update, service_original_size, polygon_config,
                 source_started, g_stop_called, g_shutdown>>
  /\ UNCHANGED <<trackerVars, polyVars, pipeVars, streamVars>>
  /\ UNCHANGED cfgVars
  /\ UNCHANGED loopVars

\* A mutant of the poll: the version observed is not recorded.
Observed_stale(last, updated_at) == last

\* periodic_polygon_check: self.last_polygon_update = updated_at
Observed(last, updated_at) == updated_at

\* periodic_polygon_check, first half of an iteration: after the sleep,
\* find_one reads the record; when the store cannot be read the exception
\* is logged and the iteration is over.
PollFind ==
  /\ program = "service"
  /\ ~polygon_config.pending
  /\ \E reachable \in BOOLEAN :
       polygon_config' =
         IF reachable
           THEN [pending |-> TRUE, coordinates |-> store_coordinates,
                 updated_at |-> store_updated_at]
           ELSE polygon_config
  /\ UNCHANGED <<store_coordinates, store_updated_at, last_polygon_update,
                 service_original_size, source_started, g_stop_called, g_shutdown>>
  /\ UNCHANGED <<trackerVars, polyVars, pipeVars, streamVars>>
  /\ UNCHANGED cfgVars
  /\ UNCHANGED loopVars

\* periodic_polygon_check, second half: if there is a record and its
\* updated_at is not the one remembered, update_polygon is called with its
\* coordinates, the working size and the native size, and the updated_at is
\* remembered.
PollApply ==
  /\ program = "service"
  /\ polygon_config.pending
  /\ polygon_config' = [pending |-> FALSE, coordinates |-> <<>>, updated_at |-> 0]
  /\ IF polygon_config.coordinates # <<>>
        /\ last_polygon_update # polygon_config.updated_at
       THEN /\ UpdatePolygon(polygon_config.coordinates, FrameSize,
                             service_original_size)
            /\ last_polygon_update' =
                 Observed(last_polygon_update, polygon_config.updated_at)
       ELSE UNCHANGED <<polyVars, last_polygon_update>>
  /\ UNCHANGED <<store_coordinates, store_updated_at, service_original_size,
                 source_started, g_stop_called, g_shutdown>>
  /\ UNCHANGED <<trackerVars, pipeVars, streamVars>>
  /\ UNCHANGED cfgVars
  /\ UNCHANGED loopVars

\* One step of the polygon check task.
PeriodicPolygonCheck == PollFind \/ PollApply

SvcStart ==
  /\ store_coordinates = <<>>
  /\ store_updated_at = 0
  /\ last_polygon_update = 0
  /\ service_original_size = <<>>
  /\ polygon_config = [pending |-> FALSE, coordinates |-> <<>>, updated_at |-> 0]
  /\ source_started = "none"
  /\ g_stop_called = FALSE
  /\ g_shutdown = FALSE

PipeStart ==
  /\ program = "none"
  /\ frame_count = 0
  /\ enter_count = 0
  /\ exit_count = 0
  /\ current_inside = 0
  /\ prev_inside_state = <<>>
  /\ in_flags = {}
  /\ out_flags = {}
  /\ g_cycle = [kind |-> "none", n |-> 0,
                published |-> "none"]
  /\ g_obs = <<>>
  /\ g_seen = {}
  /\ save_tasks = {}
  /\ g_save = "none"

----------------------------------------------------------------------------
(* VideoStreamHandler.  start() and stop() run on the caller's thread,     *)
(* _update on the capture thread; each step below is one statement (or one  *)
(* blocking call) of the code, and the threads interleave between steps.    *)

\* cv2.VideoCapture(url): a new capture object, opened or not.
OpenCapture(status) ==
  /\ Len(handles) < MaxHandles \/ stopped
  /\ handles' = Append(handles, status)
  /\ cap' = Len(handles) + 1

\* self.cap.isOpened()
IsOpened(h) == h # 0 /\ handles[h] = "open"

\* self.cap.release()
Released(hs, h) == IF h # 0 THEN [hs EXCEPT ![h] = "released"] ELSE hs

\* start(): stream_url = streams['best'].url if streams, else (and in the
\* except branch) self.stream_url.
ResolvedUrl(outcome) == IF outcome = "streams" THEN "resolved" ELSE "direct"

\* start(): streamlink.streams(self.stream_url) returns streams, returns
\* none, or raises.
StartResolve ==
  /\ start_pc = "idle"
  /\ \E outcome \in {"streams", "empty", "raise"} :
       /\ start_pc' = IF outcome = "raise" THEN "fallback_open" ELSE "open"
       /\ start_url' = ResolvedUrl(outcome)
  /\ UNCHANGED <<cap, handles, frame, stopped, handler_frame_count,
                 thread_pc, stop_pc, g_stops>>
  /\ UNCHANGED <<g_delivered, g_read_ret, g_tried>>
  /\ UNCHANGED <<trackerVars, polyVars, pipeVars, svcVars>>
  /\ UNCHANGED cfgVars
  /\ UNCHANGED loopVars

\* start(): self.cap = cv2.VideoCapture(...), on the resolved url or, with
\* no streams, on the stream url itself.
StartOpen ==
  /\ start_pc = "open"
  /\ \E status \in {"open", "failed"} : OpenCapture(status)
  /\ start_pc' = "check"
  /\ g_tried' = g_tried \cup {start_url}
  /\ UNCHANGED <<frame, stopped, handler_frame_count, thread_pc, stop_pc, g_stops>>
  /\ UNCHANGED <<g_delivered, g_read_ret, start_url>>
  /\ UNCHANGED <<trackerVars, polyVars, pipeVars, svcVars>>
  /\ UNCHANGED cfgVars
  /\ UNCHANGED loopVars

\* start(), except branch: self.cap = cv2.VideoCapture(self.stream_url).
StartFallbackOpen ==
  /\ start_pc = "fallback_open"
  /\ \E status \in {"open", "failed"} : OpenCapture(status)
  /\ start_pc' = "check"
  /\ g_tried' = g_tried \cup {start_url}
  /\ UNCHANGED <<frame, stopped, handler_frame_count, thread_pc, stop_pc, g_stops>>
  /\ UNCHANGED <<g_delivered, g_read_ret, start_url>>
  /\ UNCHANGED <<trackerVars, polyVars, pipeVars, svcVars>>
  /\ UNCHANGED cfgVars
  /\ UNCHANGED loopVars

\* start(): if not self.cap.isOpened(): return False; else the capture
\* thread is started.
StartCheck ==
  /\ start_pc = "check"
  /\ IF IsOpened(cap)
       THEN start_pc' = "sleep" /\ thread_pc' = "loop"
       ELSE start_pc' = "returned_false" /\ UNCHANGED thread_pc
  /\ UNCHANGED <<cap, handles, frame, stopped, handler_frame_count, stop_pc, g_stops>>
  /\ UNCHANGED <<g_delivered, g_read_ret, start_url, g_tried>>
  /\ UNCHANGED <<trackerVars, polyVars, pipeVars, svcVars>>
  /\ UNCHANGED cfgVars
  /\ UNCHANGED loopVars

\* start(): time.sleep(2); return True.
StartReturn ==
  /\ start_pc = "sleep"
  /\ start_pc' = "returned_true"
  /\ UNCHANGED <<cap, handles, frame, stopped, handler_frame_count,
                 thread_pc, stop_pc, g_stops>>
  /\ UNCHANGED <<g_delivered, g_read_ret, start_url, g_tried>>
  /\ UNCHANGED <<trackerVars, polyVars, pipeVars, svcVars>>
  /\ UNCHANGED cfgVars
  /\ UNCHANGED loopVars

\* _update: while not self.stopped
ThreadLoop ==
  /\ thread_pc = "loop"
  /\ thread_pc' = IF stopped THEN "done" ELSE "test_cap"
  /\ UNCHANGED <<cap, handles, frame, stopped, handler_frame_count,
                 start_pc, stop_pc, g_stops>>
  /\ UNCHANGED <<g_delivered, g_read_ret, start_url, g_tried>>
  /\ UNCHANGED <<trackerVars, polyVars, pipeVars, svcVars>>
  /\ UNCHANGED cfgVars
  /\ UNCHANGED loopVars

\* _update: if self.cap is not None and self.cap.isOpened()
ThreadTestCap ==
  /\ thread_pc = "test_cap"
  /\ thread_pc' = IF IsOpened(cap) THEN "read" ELSE "idle_sleep"
  /\ UNCHANGED <<cap, handles, frame, stopped, handler_frame_count,
                 start_pc, stop_pc, g_stops>>
  /\ UNCHANGED <<g_delivered, g_read_ret, start_url, g_tried>>
  /\ UNCHANGED <<trackerVars, polyVars, pipeVars, svcVars>>
  /\ UNCHANGED cfgVars
  /\ UNCHANGED loopVars

\* A mutant of the frame store: a filled buffer is not overwritten.
StoreFrame_first(old, new) == IF old = 0 THEN new ELSE old

\* _update: self.frame = frame
StoreFrame(old, new) == new

\* _update: ret, frame = self.cap.read(); on success the frame is stored
\* and counted.  A released capture reads nothing.  Frames are numbered in
\* the order the transport delivers them.
ThreadRead ==
  /\ thread_pc = "read"
  /\ \E ret \in BOOLEAN :
       /\ ret => IsOpened(cap) /\ g_delivered < MaxReads
       /\ IF ret
            THEN /\ g_delivered' = g_delivered + 1
                 /\ frame' = StoreFrame(frame, g_delivered + 1)
                 /\ handler_frame_count' = handler_frame_count + 1
                 /\ thread_pc' = "loop"
            ELSE /\ UNCHANGED <<frame, handler_frame_count, g_delivered>>
                 /\ thread_pc' = "backoff"
  /\ UNCHANGED <<cap, handles, stopped, start_pc, stop_pc, g_stops, g_read_ret>>
  /\ UNCHANGED <<start_url, g_tried>>
  /\ UNCHANGED <<trackerVars, polyVars, pipeVars, svcVars>>
  /\ UNCHANGED cfgVars
  /\ UNCHANGED loopVars

\* _update: time.sleep(1) after a failed read, then self._reconnect().
ThreadBackoff ==
  /\ thread_pc = "backoff"
  /\ thread_pc' = "rc_release"
  /\ UNCHANGED <<cap, handles, frame, stopped, handler_frame_count,
                 start_pc, stop_pc, g_stops>>
  /\ UNCHANGED <<g_delivered, g_read_ret, start_url, g_tried>>
  /\ UNCHANGED <<trackerVars, polyVars, pipeVars, svcVars>>
  /\ UNCHANGED cfgVars
  /\ UNCHANGED loopVars

\* _reconnect: if self.cap is not None: self.cap.release()
ThreadReconnectRelease ==
  /\ thread_pc = "rc_release"
  /\ handles' = Released(handles, cap)
  /\ thread_pc' = "rc_resolve"
  /\ UNCHANGED <<cap, frame, stopped, handler_frame_count, start_pc, stop_pc, g_stops>>
  /\ UNCHANGED <<g_delivered, g_read_ret, start_url, g_tried>>
  /\ UNCHANGED <<trackerVars, polyVars, pipeVars, svcVars>>
  /\ UNCHANGED cfgVars
  /\ UNCHANGED loopVars

\* _reconnect: streamlink.streams(self.stream_url); if it raises, the
\* except branch logs and _reconnect returns.
ThreadReconnectResolve ==
  /\ thread_pc = "rc_resolve"
  /\ \E outcome \in {"streams", "empty", "raise"} :
       thread_pc' = IF outcome = "raise" THEN "loop" ELSE "rc_open"
  /\ UNCHANGED <<cap, handles, frame, stopped, handler_frame_count,
                 start_pc, stop_pc, g_stops>>
  /\ UNCHANGED <<g_delivered, g_read_ret, start_url, g_tried>>
  /\ UNCHANGED <<trackerVars, polyVars, pipeVars, svcVars>>
  /\ UNCHANGED cfgVars
  /\ UNCHANGED loopVars

\* _reconnect: self.cap = cv2.VideoCapture(...); opened or not, _reconnect
\* returns to the loop.
ThreadReconnectOpen ==
  /\ thread_pc = "rc_open"
  /\ \E status \in {"open", "failed"} : OpenCapture(status)
  /\ thread_pc' = "loop"
  /\ UNCHANGED <<frame, stopped, handler_frame_count, start_pc, stop_pc, g_stops>>
  /\ UNCHANGED <<g_delivered, g_read_ret, start_url, g_tried>>
  /\ UNCHANGED <<trackerVars, polyVars, pipeVars, svcVars>>
  /\ UNCHANGED cfgVars
  /\ UNCHANGED loopVars

\* _update: time.sleep(0.1) when there is no opened capture.
ThreadIdleSleep ==
  /\ thread_pc = "idle_sleep"
  /\ thread_pc' = "loop"
  /\ UNCHANGED <<cap, handles, frame, stopped, handler_frame_count,
                 start_pc, stop_pc, g_stops>>
  /\ UNCHANGED <<g_delivered, g_read_ret, start_url, g_tried>>
  /\ UNCHANGED <<trackerVars, polyVars, pipeVars, svcVars>>
  /\ UNCHANGED cfgVars
  /\ UNCHANGED loopVars

\* stop(): self.stopped = True.  stop() is called by the owner of the
\* handler once start() has returned.
StopSetFlag ==
  /\ start_pc \in {"returned_true", "returned_false"}
  /\ stop_pc = "idle"
  /\ g_stops < MaxStops
  /\ stopped' = TRUE
  /\ stop_pc' = "release"
  /\ UNCHANGED <<cap, handles, frame, handler_frame_count, start_pc, thread_pc, g_stops>>
  /\ UNCHANGED <<g_delivered, g_read_ret, start_url, g_tried>>
  /\ UNCHANGED <<trackerVars, polyVars, pipeVars, svcVars>>
  /\ UNCHANGED cfgVars
  /\ UNCHANGED loopVars

\* stop(): if self.cap is not None: self.cap.release(); return.
StopRelease ==
  /\ stop_pc = "release"
  /\ handles' = Released(handles, cap)
  /\ stop_pc' = "idle"
  /\ g_stops' = g_stops + 1
  /\ UNCHANGED <<cap, frame, stopped, handler_frame_count, start_pc, thread_pc>>
  /\ UNCHANGED <<g_delivered, g_read_ret, start_url, g_tried>>
  /\ UNCHANGED <<trackerVars, polyVars, pipeVars, svcVars>>
  /\ UNCHANGED cfgVars
  /\ UNCHANGED loopVars

\* read(): return self.frame
read(held) == held

\* A consumer calls read(); it may do so at any time.
Read ==
  /\ g_read_ret' = read(frame)
  /\ UNCHANGED <<cap, handles, frame, stopped, handler_frame_count,
                 start_pc, thread_pc, stop_pc, g_stops, g_delivered>>
  /\ UNCHANGED <<start_url, g_tried>>
  /\ UNCHANGED <<trackerVars, polyVars, pipeVars, svcVars>>
  /\ UNCHANGED cfgVars
  /\ UNCHANGED loopVars

\* One step of the capture thread.
ThreadStep ==
  \/ ThreadLoop
  \/ ThreadTestCap
  \/ ThreadRead
  \/ ThreadBackoff
  \/ ThreadReconnectRelease
  \/ ThreadReconnectResolve
  \/ ThreadReconnectOpen
  \/ ThreadIdleSleep

StreamStart ==
  /\ cap = 0
  /\ handles = <<>>
  /\ frame = 0
  /\ stopped = FALSE
  /\ handler_frame_count = 0
  /\ start_pc = "idle"
  /\ thread_pc = "none"
  /\ stop_pc = "idle"
  /\ g_stops = 0
  /\ g_delivered = 0
  /\ g_read_ret = -1
  /\ start_url = "none"
  /\ g_tried = {}

TrackerStart ==
  /\ next_object_id = 0
  /\ objects = <<>>
  /\ disappeared = <<>>
  /\ track_history = <<>>
  /\ g_assigned = <<>>
  /\ g_full = <<>>
  /\ g_misses = <<>>
  /\ g_dereg = {}
  /\ g_cycles = 0
  /\ g_last = [op |-> "init", n |-> 0, updated |-> FALSE, detections |-> <<>>,
               pairs |-> {}, raised |-> FALSE, tracks |-> <<>>]

----------------------------------------------------------------------------
(* The configuration endpoints (app/routers/config.py) on the polygon       *)
(* collection.  Each handler awaits the store between its steps, so the     *)
(* handlers of concurrent requests interleave there; a step below is one    *)
(* awaited store operation with the code up to the next one.  The           *)
(* collection has the unique index on area_name that MongoDB.create_indexes *)
(* makes when the application connects.                                     *)

\* The area names requests are made for.
AreaNames == { "high_risk_area_1", "test_area" }

\* The requests handled at the same time.
Clients == { 1, 2 }

IdleHandler ==
  [op |-> "none", area_name |-> "none", coordinates |-> <<>>, pc |-> "idle"]

\* find_one({"area_name": name}) is not None
Holds(coll, name) == \E i \in 1..Len(coll) : coll[i].area_name = name

\* The document find_one, update_one and delete_one act on: the first match.
FirstMatch(coll, name) ==
  CHOOSE i \in 1..Len(coll) :
    /\ coll[i].area_name = name
    /\ \A j \in 1..(i - 1) : coll[j].area_name # name

\* A mutant of the collection: it has no unique index on area_name.
insert_one_no_index(coll, doc) == [coll |-> Append(coll, doc), ok |-> TRUE]

\* insert_one(doc) on the collection with its unique index on area_name:
\* the document is added, or DuplicateKeyError is raised and nothing is.
insert_one(coll, doc) ==
  IF Holds(coll, doc.area_name)
    THEN [coll |-> coll, ok |-> FALSE]
    ELSE [coll |-> Append(coll, doc), ok |-> TRUE]

\* update_one({"area_name": name}, {"$set": {"coordinates": ...}})
update_one(coll, name, coordinates) ==
  IF Holds(coll, name)
    THEN [coll EXCEPT ![FirstMatch(coll, name)].coordinates = coordinates]
    ELSE coll

\* delete_one({"area_name": name})
delete_one(coll, name) ==
  IF Holds(coll, name)
    THEN LET k == FirstMatch(coll, name) IN
         SubSeq(coll, 1, k - 1) \o SubSeq(coll, k + 1, Len(coll))
    ELSE coll

\* A request is taken up by an idle handler.
Accepts(c) == handlers[c].pc = "idle" /\ g_requests < MaxRequests

\* The step of handler c ends with the HTTP status given (0: the handler
\* goes on), leaving the handler as h.
Responds(c, h, op, name, step, code) ==
  /\ handlers' = [handlers EXCEPT ![c] = h]
  /\ g_response' = [client |-> c, op |-> op, area_name |-> name,
                    step |-> step, status |-> code]
  /\ g_steps' = g_steps + 1

\* create_area: find_one; an existing name is answered 400.
CreateAreaFind ==
  /\ \E c \in Clients, name \in AreaNames :
       /\ Accepts(c)
       /\ IF Holds(polygon_collection, name)
            THEN Responds(c, IdleHandler, "create", name, "find", 400)
            ELSE Responds(c, [op |-> "create", area_name |-> name,
                              coordinates |-> ZoneSquare, pc |-> "found"],
                          "create", name, "find", 0)
  /\ g_requests' = g_requests + 1
  /\ UNCHANGED <<polygon_collection, g_purged>>
  /\ UNCHANGED <<trackerVars, polyVars, pipeVars, streamVars, svcVars>>
  /\ UNCHANGED loopVars

\* create_area: insert_one; an exception is answered 500.
CreateAreaInsert ==
  /\ \E c \in Clients :
       /\ handlers[c].op = "create" /\ handlers[c].pc = "found"
       /\ LET h == handlers[c]
              r == insert_one(polygon_collection,
                              [area_name |-> h.area_name,
                               coordinates |-> h.coordinates])
          IN /\ polygon_collection' = r.coll
             /\ IF r.ok
                  THEN Responds(c, [h EXCEPT !.pc = "written"],
                                "create", h.area_name, "write", 0)
                  ELSE Responds(c, IdleHandler, "create", h.area_name, "write", 500)
  /\ UNCHANGED <<g_requests, g_purged>>
  /\ UNCHANGED <<trackerVars, polyVars, pipeVars, streamVars, svcVars>>
  /\ UNCHANGED loopVars

\* create_area: find_one by _id and return; a document no longer there
\* fails the response model.
CreateAreaReturn ==
  /\ \E c \in Clients :
       /\ handlers[c].op = "create" /\ handlers[c].pc = "written"
       /\ Responds(c, IdleHandler, "create", handlers[c].area_name, "return",
                   IF \E i \in 1..Len(polygon_collection) :
                        /\ polygon_collection[i].area_name = handlers[c].area_name
                        /\ polygon_collection[i].coordinates = handlers[c].coordinates
                     THEN 201 ELSE 500)
  /\ UNCHANGED <<polygon_collection, g_requests, g_purged>>
  /\ UNCHANGED <<trackerVars, polyVars, pipeVars, streamVars, svcVars>>
  /\ UNCHANGED loopVars

\* update_area: find_one; a missing name is answered 404.
UpdateAreaFind ==
  /\ \E c \in Clients, name \in AreaNames :
       /\ Accepts(c)
       /\ IF ~Holds(polygon_collection, name)
            THEN Responds(c, IdleHandler, "update", name, "find", 404)
            ELSE Responds(c, [op |-> "update", area_name |-> name,
                              coordinates |-> ZoneTriangle, pc |-> "found"],
                          "update", name, "find", 0)
  /\ g_requests' = g_requests + 1
  /\ UNCHANGED <<polygon_collection, g_purged>>
  /\ UNCHANGED <<trackerVars, polyVars, pipeVars, streamVars, svcVars>>
  /\ UNCHANGED loopVars

\* update_area: update_one, which changes the matching document if there
\* is one.
UpdateAreaSet ==
  /\ \E c \in Clients :
       /\ handlers[c].op = "update" /\ handlers[c].pc = "found"
       /\ polygon_collection' = update_one(polygon_collection,
                                           handlers[c].area_name,
                                           handlers[c].coordinates)
       /\ Responds(c, [handlers[c] EXCEPT !.pc = "written"],
                   "update", handlers[c].area_name, "write", 0)
  /\ UNCHANGED <<g_requests, g_purged>>
  /\ UNCHANGED <<trackerVars, polyVars, pipeVars, streamVars, svcVars>>
  /\ UNCHANGED loopVars

\* update_area: ping, find_one and return; no document fails the response
\* model.
UpdateAreaReturn ==
  /\ \E c \in Clients :
       /\ handlers[c].op = "update" /\ handlers[c].pc = "written"
       /\ Responds(c, IdleHandler, "update", handlers[c].area_name, "return",
                   IF Holds(polygon_collection, handlers[c].area_name)
                     THEN 200 ELSE 500)
  /\ UNCHANGED <<polygon_collection, g_requests, g_purged>>
  /\ UNCHANGED <<trackerVars, polyVars, pipeVars, streamVars, svcVars>>
  /\ UNCHANGED loopVars

\* delete_area: find_one; a missing name is answered 404.
DeleteAreaFind ==
  /\ \E c \in Clients, name \in AreaNames :
       /\ Accepts(c)
       /\ IF ~Holds(polygon_collection, name)
            THEN Responds(c, IdleHandler, "delete", name, "find", 404)
            ELSE Responds(c, [op |-> "delete", area_name |-> name,
                              coordinates |-> <<>>, pc |-> "found"],
                          "delete", name, "find", 0)
  /\ g_requests' = g_requests + 1
  /\ UNCHANGED <<polygon_collection, g_purged>>
  /\ UNCHANGED <<trackerVars, polyVars, pipeVars, streamVars, svcVars>>
  /\ UNCHANGED loopVars

\* delete_area: delete_one and the success message, whatever was deleted.
DeleteAreaRemove ==
  /\ \E c \in Clients :
       /\ handlers[c].op = "delete" /\ handlers[c].pc = "found"
       /\ polygon_collection' = delete_one(polygon_collection, handlers[c].area_name)
       /\ Responds(c, IdleHandler, "delete", handlers[c].area_name, "write", 200)
  /\ UNCHANGED <<g_requests, g_purged>>
  /\ UNCHANGED <<trackerVars, polyVars, pipeVars, streamVars, svcVars>>
  /\ UNCHANGED loopVars

\* reset_area_data: find_one; a missing name is answered 404.
ResetAreaFind ==
  /\ \E c \in Clients, name \in AreaNames :
       /\ Accepts(c)
       /\ IF ~Holds(polygon_collection, name)
            THEN Responds(c, IdleHandler, "reset", name, "find", 404)
            ELSE Responds(c, [op |-> "reset", area_name |-> name,
                              coordinates |-> <<>>, pc |-> "found"],
                          "reset", name, "find", 0)
  /\ g_requests' = g_requests + 1
  /\ UNCHANGED <<polygon_collection, g_purged>>
  /\ UNCHANGED <<trackerVars, polyVars, pipeVars, streamVars, svcVars>>
  /\ UNCHANGED loopVars

\* reset_area_data: delete_many on the detections and the counting events
\* of the area; the polygon collection is not written.
ResetAreaPurge ==
  /\ \E c \in Clients :
       /\ handlers[c].op = "reset" /\ handlers[c].pc = "found"
       /\ g_purged' = g_purged \cup {handlers[c].area_name}
       /\ Responds(c, IdleHandler, "reset", handlers[c].area_name, "write", 200)
  /\ UNCHANGED <<polygon_collection, g_requests>>
  /\ UNCHANGED <<trackerVars, polyVars, pipeVars, streamVars, svcVars>>
  /\ UNCHANGED loopVars

ConfigStart ==
  /\ polygon_collection = <<>>
  /\ handlers = [c \in Clients |-> IdleHandler]
  /\ g_response = [client |-> 0, op |-> "none", area_name |-> "none",
                   step |-> "none", status |-> 0]
  /\ g_requests = 0
  /\ g_steps = 0
  /\ g_purged = {}

NextConfig ==
  \/ CreateAreaFind
  \/ CreateAreaInsert
  \/ CreateAreaReturn
  \/ UpdateAreaFind
  \/ UpdateAreaSet
  \/ UpdateAreaReturn
  \/ DeleteAreaFind
  \/ DeleteAreaRemove
  \/ ResetAreaFind
  \/ ResetAreaPurge

----------------------------------------------------------------------------

----------------------------------------------------------------------------
(* The coroutines of one asyncio event loop.  A coroutine runs until it     *)
(* reaches an await that suspends it (run_in_executor, sleep, a database    *)
(* call, the yield of the streaming generator); only then does the loop run *)
(* another one.  The endpoint runs one generate_frames per streaming        *)
(* response, all on the module's tracker, zone and counters; the service    *)
(* runs its run loop and periodic_polygon_check.                            *)

Tasks == {"stream_1", "stream_2", "run", "poll"}

\* The coroutines that run frame cycles.
CycleTasks(prog) ==
  IF prog = "api" THEN {"stream_1", "stream_2"}
  ELSE IF prog = "service" THEN {"run"}
  ELSE {}

\* The detections of a cycle.
LoopDetLists == { <<>>, <<BoxB>>, <<BoxLow>>, <<BoxA, BoxC>> }

\* A mutant of the suspension points: the cycle awaits between the tracker
\* update and the counting.
SuspensionPoints_in_cycle == {"await", "draw"}

\* Where a coroutine gives the event loop away.  "detect" and "draw" are
\* video.py:219-221 and run_detection.py:158-185, which hold no await
\* (create_task only schedules); "apply" is run_detection.py:114-133.
SuspensionPoints == {"await"}

\* The event loop runs t: no other coroutine is between two suspensions.
MayRun(t) == loop_owner \in {"none", t}

\* t goes on to pc: it keeps the loop unless it is suspended there.
GoesTo(t, pc) ==
  /\ task_pc' = [task_pc EXCEPT ![t] = pc]
  /\ loop_owner' = IF pc \in SuspensionPoints THEN "none" ELSE t

\* A loop iteration up to the detection: the frame read() gave is counted
\* and resized; on a skipped frame it is published and the loop suspends
\* again (yield / sleep), on a detection frame the cycle begins.
LoopFrameRead ==
  /\ \E t \in CycleTasks(program) :
       /\ MayRun(t)
       /\ task_pc[t] = "await"
       /\ task_count[t] < MaxLoopFrames
       /\ task_count' = [task_count EXCEPT ![t] = @ + 1]
       /\ GoesTo(t, IF IsDetectionFrame(task_count[t] + 1)
                      THEN "detect" ELSE "await")
  /\ UNCHANGED task_tracked
  /\ UNCHANGED <<trackerVars, polyVars, pipeVars, streamVars, svcVars>>
  /\ UNCHANGED cfgVars

\* The cycle's detect and get_tracks_with_boxes.  The service returns to
\* its loop at once when there are no detections.
LoopTrack ==
  /\ g_cycles < MaxCycles
  /\ \E t \in CycleTasks(program) :
       /\ MayRun(t)
       /\ task_pc[t] = "detect"
       /\ \E detections \in LoopDetLists :
            IF program = "service" /\ Len(detections) = 0
              THEN /\ GoesTo(t, "await")
                   /\ UNCHANGED <<trackerVars, task_tracked>>
              ELSE \E rows \in UpdateOrders(TrackerNow, detections) :
                     /\ GetTracksWithBoxesVia(detections, rows)
                     /\ task_tracked' =
                          [task_tracked EXCEPT ![t] =
                             get_tracks_with_boxes(TrackerNow, detections,
                                                   rows).tracks]
                     /\ GoesTo(t, "draw")
  /\ UNCHANGED task_count
  /\ UNCHANGED <<polyVars, pipeVars, streamVars, svcVars>>
  /\ UNCHANGED cfgVars

\* The cycle's loop over the tracked boxes: membership test, transition
\* check and counters in draw_detections_on_frame, the mid-line counters in
\* process_frame; then the frame is published and the loop suspends.
LoopCount ==
  /\ \E t \in CycleTasks(program) :
       /\ MayRun(t)
       /\ task_pc[t] = "draw"
       /\ SetCounters(IF program = "api"
                        THEN draw_detections_on_frame(CountersNow,
                                                      task_tracked[t], PolyNow)
                        ELSE process_tracked(CountersNow, task_tracked[t]))
       /\ g_cycle' = [kind |-> "detect", n |-> Len(task_tracked[t]),
                      published |-> "annotated"]
       /\ task_tracked' = [task_tracked EXCEPT ![t] = <<>>]
       /\ GoesTo(t, "await")
  /\ UNCHANGED <<program, frame_count>>
  /\ UNCHANGED task_count
  /\ UNCHANGED <<trackerVars, polyVars, streamVars, svcVars>>
  /\ UNCHANGED cfgVars

\* periodic_polygon_check resumes with what find_one gave; when the store
\* cannot be read the exception is logged and the task sleeps again.
LoopPollFind ==
  /\ program = "service"
  /\ MayRun("poll")
  /\ task_pc["poll"] = "await"
  /\ \E reachable \in BOOLEAN :
       IF reachable
         THEN /\ polygon_config' =
                   [pending |-> TRUE, coordinates |-> store_coordinates,
                    updated_at |-> store_updated_at]
              /\ GoesTo("poll", "apply")
         ELSE /\ UNCHANGED polygon_config
              /\ GoesTo("poll", "await")
  /\ UNCHANGED <<store_coordinates, store_updated_at, last_polygon_update,
                 service_original_size, source_started, g_stop_called, g_shutdown>>
  /\ UNCHANGED <<task_count, task_tracked>>
  /\ UNCHANGED <<trackerVars, polyVars, pipeVars, streamVars>>
  /\ UNCHANGED cfgVars

\* periodic_polygon_check: the record is compared with the remembered
\* version and update_polygon called when they differ; then the task
\* sleeps.
LoopPollApply ==
  /\ program = "service"
  /\ MayRun("poll")
  /\ task_pc["poll"] = "apply"
  /\ polygon_config' = [pending |-> FALSE, coordinates |-> <<>>, updated_at |-> 0]
  /\ IF polygon_config.coordinates # <<>>
        /\ last_polygon_update # polygon_config.updated_at
       THEN /\ UpdatePolygon(polygon_config.coordinates, FrameSize,
                             service_original_size)
            /\ last_polygon_update' =
                 Observed(last_polygon_update, polygon_config.updated_at)
       ELSE UNCHANGED <<polyVars, last_polygon_update>>
  /\ GoesTo("poll", "await")
  /\ UNCHANGED <<store_coordinates, store_updated_at, service_original_size,
                 source_started, g_stop_called, g_shutdown>>
  /\ UNCHANGED <<task_count, task_tracked>>
  /\ UNCHANGED <<trackerVars, pipeVars, streamVars>>
  /\ UNCHANGED cfgVars

LoopStart ==
  /\ task_pc = [t \in Tasks |-> "await"]
  /\ task_count = [t \in Tasks |-> 0]
  /\ task_tracked = [t \in Tasks |-> <<>>]
  /\ loop_owner = "none"

Init ==
  /\ TrackerStart /\ PolyStart /\ PipeStart /\ StreamStart /\ SvcStart
  /\ ConfigStart /\ LoopStart

SpecConfig == Init /\ [][NextConfig]_vars

TrackerUpdateStep ==
  /\ g_cycles < MaxCycles
  /\ \E detections \in DetLists : Update(detections)
  /\ UNCHANGED <<polyVars, pipeVars, streamVars, svcVars>>
  /\ UNCHANGED cfgVars
  /\ UNCHANGED loopVars

TrackerBoxesStep ==
  /\ g_cycles < MaxCycles
  /\ \E detections \in BoxesDetLists : GetTracksWithBoxes(detections)
  /\ UNCHANGED <<polyVars, pipeVars, streamVars, svcVars>>
  /\ UNCHANGED cfgVars
  /\ UNCHANGED loopVars

\* get_tracks_with_boxes on two detections with one centroid, as the first
\* call on a tracker.
TrackerTwinBoxesStep ==
  /\ g_cycles < MaxCycles
  /\ next_object_id = 0
  /\ \E detections \in TwinDetLists : GetTracksWithBoxes(detections)
  /\ UNCHANGED <<polyVars, pipeVars, streamVars, svcVars>>
  /\ UNCHANGED cfgVars
  /\ UNCHANGED loopVars

NextTracker == TrackerUpdateStep \/ TrackerBoxesStep

SpecTracker == Init /\ [][NextTracker]_vars

\* The tracker called through get_tracks_with_boxes only, as the frame
\* cycles call it.
NextBoxes == TrackerBoxesStep \/ TrackerTwinBoxesStep

SpecBoxes == Init /\ [][NextBoxes]_vars

----------------------------------------------------------------------------
(* A long run of one tracker: a single person walking, seen or missed in   *)
(* each cycle.  The k-th centroid a track is given lies on a fixed walk     *)
(* whose consecutive points differ and are less than 100 px apart.          *)

WalkBox(k) == <<220 + 10 * (k % 7), 250, 300 + 10 * (k % 7), 350, 90>>

WalkStep ==
  IF DOMAIN objects = {} THEN 0
  ELSE Len(g_full[CHOOSE id \in DOMAIN objects : \A o \in DOMAIN objects : id >= o])

HistSeenStep ==
  /\ g_cycles < MaxHistCycles
  /\ Update(<<WalkBox(WalkStep)>>)
  /\ UNCHANGED <<polyVars, pipeVars, streamVars, svcVars>>
  /\ UNCHANGED cfgVars
  /\ UNCHANGED loopVars

HistMissedStep ==
  /\ g_cycles < MaxHistCycles
  /\ Update(<<>>)
  /\ UNCHANGED <<polyVars, pipeVars, streamVars, svcVars>>
  /\ UNCHANGED cfgVars
  /\ UNCHANGED loopVars

NextHist == HistSeenStep \/ HistMissedStep

SpecHist == Init /\ [][NextHist]_vars

----------------------------------------------------------------------------
(* The zone detector on its own: any sequence of check_entry_exit and      *)
(* update_polygon calls.                                                    *)

PolyCheckStep ==
  /\ \E track_id \in TrackIds, inside_now \in BOOLEAN :
        CheckEntryExit(track_id, inside_now)
  /\ UNCHANGED <<trackerVars, pipeVars, streamVars, svcVars>>
  /\ UNCHANGED cfgVars
  /\ UNCHANGED loopVars

PolyUpdateStep ==
  /\ \E coordinates \in ZoneCoordinates, original_size \in Sizes :
        UpdatePolygon(coordinates,
                      IF original_size = <<>> THEN <<>> ELSE FrameSize,
                      original_size)
  /\ UNCHANGED <<trackerVars, pipeVars, streamVars, svcVars>>
  /\ UNCHANGED cfgVars
  /\ UNCHANGED loopVars

NextPoly == PolyCheckStep \/ PolyUpdateStep

SpecPoly == Init /\ [][NextPoly]_vars

----------------------------------------------------------------------------
(* One process running its frame cycle: the streaming endpoint or the      *)
(* detection service.                                                       *)

NextPipeline ==
  \/ GetInstances
  \/ ApiNoFrame
  \/ ApiSkipFrame
  \/ ApiDetectFrame
  \/ ServiceInitialize
  \/ ServiceNoFrame
  \/ ServiceSkipFrame
  \/ ServiceDetectFrame
  \/ ApiFrameFails
  \/ ServiceFrameFails
  \/ ServiceShutdown

SpecPipeline == Init /\ [][NextPipeline]_vars

----------------------------------------------------------------------------
(* The frame cycle with its save tasks: the tasks a detection cycle creates *)
(* run between the cycles, in any order, and each insert may fail.          *)

SaveApiSkipFrame == frame_count < MaxSaveFrames /\ ApiSkipFrame

SaveApiDetectFrame == frame_count < MaxSaveFrames /\ ApiDetectFrame

SaveServiceSkipFrame == frame_count < MaxSaveFrames /\ ServiceSkipFrame

SaveServiceDetectFrame == frame_count < MaxSaveFrames /\ ServiceDetectFrame

NextSave ==
  \/ GetInstances
  \/ SaveApiSkipFrame
  \/ SaveApiDetectFrame
  \/ ServiceInitialize
  \/ SaveServiceSkipFrame
  \/ SaveServiceDetectFrame
  \/ SaveTaskRuns

SpecSave == Init /\ [][NextSave]_vars

----------------------------------------------------------------------------
(* The frame cycle fed by its Frame Source: start() and the capture thread  *)
(* run as in the handler, and a loop iteration of the endpoint or of the    *)
(* service takes what read() returns and, unless it is None, runs a cycle   *)
(* on it.                                                                   *)

\* frame = read(); if frame is None the loop sleeps, else the cycle runs.
HoldsFrame == start_pc = "returned_true" /\ read(frame) # 0

FeedApiSkipFrame == HoldsFrame /\ frame_count < MaxFeedFrames /\ ApiSkipFrame

FeedApiDetectFrame == HoldsFrame /\ frame_count < MaxFeedFrames /\ ApiDetectFrame

FeedServiceSkipFrame ==
  HoldsFrame /\ frame_count < MaxFeedFrames /\ ServiceSkipFrame

FeedServiceDetectFrame ==
  HoldsFrame /\ frame_count < MaxFeedFrames /\ ServiceDetectFrame

NextFeed ==
  \/ GetInstances
  \/ ServiceInitialize
  \/ StartResolve
  \/ StartOpen
  \/ StartFallbackOpen
  \/ StartCheck
  \/ StartReturn
  \/ ThreadLoop
  \/ ThreadTestCap
  \/ ThreadRead
  \/ ThreadBackoff
  \/ ThreadReconnectRelease
  \/ ThreadReconnectResolve
  \/ ThreadReconnectOpen
  \/ ThreadIdleSleep
  \/ FeedApiSkipFrame
  \/ FeedApiDetectFrame
  \/ FeedServiceSkipFrame
  \/ FeedServiceDetectFrame

SpecFeed == Init /\ [][NextFeed]_vars

----------------------------------------------------------------------------
(* The coroutines of one event loop: two streaming responses of the         *)
(* endpoint, or the service's run loop and its polygon check, while the     *)
(* config API writes the zone record.                                       *)

NextLoop ==
  \/ GetInstances
  \/ ServiceInitialize
  \/ UpdateArea
  \/ LoopFrameRead
  \/ LoopTrack
  \/ LoopCount
  \/ LoopPollFind
  \/ LoopPollApply

SpecLoop == Init /\ [][NextLoop]_vars

----------------------------------------------------------------------------
(* The detection service with its polygon check task, and the config API    *)
(* writing the zone record.                                                 *)

NextReload ==
  \/ GetInstances
  \/ ServiceInitialize
  \/ UpdateArea
  \/ PollFind
  \/ PollApply
  \/ ServiceShutdown

SpecReload == Init /\ [][NextReload]_vars

\* The polygon check is an asyncio task of the running service: while the
\* service runs, an iteration that can take a step takes it.
SpecReloadFair == SpecReload /\ WF_vars(PeriodicPolygonCheck)

----------------------------------------------------------------------------
(* One Frame Source: start(), the capture thread, stop().                   *)

NextStream ==
  \/ StartResolve
  \/ StartOpen
  \/ StartFallbackOpen
  \/ StartCheck
  \/ StartReturn
  \/ ThreadLoop
  \/ ThreadTestCap
  \/ ThreadRead
  \/ ThreadBackoff
  \/ ThreadReconnectRelease
  \/ ThreadReconnectResolve
  \/ ThreadReconnectOpen
  \/ ThreadIdleSleep
  \/ StopSetFlag
  \/ StopRelease
  \/ Read

SpecStream == Init /\ [][NextStream]_vars

\* The capture thread is a running thread of its own: it is scheduled as
\* long as it has a step to take, and each blocking call returns.
SpecStreamFair == SpecStream /\ WF_vars(ThreadStep)

----------------------------------------------------------------------------
(* Claims about the zone detector                                           *)

\* C1: with no reload in between, the first check_entry_exit call for a
\* track id returns no event whatever the membership; a later call returns
\* Entry exactly when the previous observation was outside and the current
\* one is inside, Exit exactly when it was inside and is now outside, and no
\* event when they are equal; after every call the stored membership of
\* each id is its latest observation.
C1_TransitionTable ==
  /\ previous_states = g_pm_obs
  /\ g_pm_call.op = "check_entry_exit" =>
       LET c == g_pm_call IN
       /\ c.first => g_pm_ret = "none"
       /\ ~c.first =>
            /\ (g_pm_ret = "entry") <=> (~c.last_obs /\ c.current_inside)
            /\ (g_pm_ret = "exit") <=> (c.last_obs /\ ~c.current_inside)
            /\ (c.last_obs = c.current_inside) => g_pm_ret = "none"
       /\ c.track_id \in DOMAIN previous_states
       /\ previous_states[c.track_id] = c.current_inside

\* C1 witness: a later call of a track that was outside and is now inside
\* returned Entry.
C1_Witness ==
  /\ g_pm_call.op = "check_entry_exit"
  /\ ~g_pm_call.first /\ ~g_pm_call.last_obs /\ g_pm_call.current_inside
  /\ g_pm_ret = "entry"

\* C2 as claimed: whatever update_polygon calls come in between, the events
\* of one track never hold two Entry or two Exit in a row.
C2_AlternateAcrossReloads ==
  \A t \in DOMAIN g_pm_events :
    Len(g_pm_events[t]) = 2 => g_pm_events[t][1] # g_pm_events[t][2]

\* C2 as amended: the events of one track emitted between two update_polygon
\* calls never hold two Entry or two Exit in a row.
C2_AlternateWithinGeneration ==
  \A t \in DOMAIN g_pm_gen_events :
    Len(g_pm_gen_events[t]) = 2 => g_pm_gen_events[t][1] # g_pm_gen_events[t][2]

\* C2 witness: a track that entered and then left, after a reload.
C2_Witness ==
  /\ g_pm_reloads > 0
  /\ \E t \in DOMAIN g_pm_gen_events : g_pm_gen_events[t] = <<"entry", "exit">>

\* C3: update_polygon leaves no membership record, and the first
\* check_entry_exit of any track after it returns no event, whatever the
\* membership.
C3_ReloadClearsStates ==
  /\ g_pm_call.op = "update_polygon" => previous_states = <<>>
  /\ (g_pm_call.op = "check_entry_exit" /\ g_pm_reloads > 0 /\ g_pm_call.first)
       => g_pm_ret = "none"

\* C3 witness: a track last seen leaving the zone is observed inside right
\* after a reload, and no event is returned.
C3_Witness ==
  /\ g_pm_call.op = "check_entry_exit" /\ g_pm_reloads > 0
  /\ g_pm_call.first /\ g_pm_call.current_inside
  /\ g_pm_call.track_id \in DOMAIN g_pm_events
  /\ g_pm_events[g_pm_call.track_id][Len(g_pm_events[g_pm_call.track_id])] = "exit"
  /\ g_pm_ret = "none"

\* C16: an update_polygon call with fewer than 3 vertices, made on a
\* manager that holds a polygon, leaves get_coordinates and the answer of
\* is_point_inside at every point as they were before the call.
C16_MalformedReloadRetainsPolygon ==
  [][(g_pm_call'.op = "update_polygon" /\ g_pm_call'.n < 3 /\ pm_polygon # <<>>)
       => /\ get_coordinates(PolyNow)' = get_coordinates(PolyNow)
          /\ \A pt \in ProbePoints :
               is_point_inside(PolyNow, pt[1], pt[2])'
                 = is_point_inside(PolyNow, pt[1], pt[2])]_vars

----------------------------------------------------------------------------
(* Claims about the frame cycle and the counters                            *)

\* C5 as claimed: in a detection cycle of the endpoint in which the
\* detector returns no detections, every existing track's disappeared count
\* goes up by one, and a track that exceeds max_disappeared is deregistered.
C5_EmptyCycleAgesTracks ==
  [][ (program' = "api" /\ g_cycle'.kind = "detect" /\ g_cycle'.n = 0) =>
        \A id \in DOMAIN objects :
          IF disappeared[id] + 1 > max_disappeared
            THEN id \notin DOMAIN objects'
            ELSE id \in DOMAIN objects' /\ disappeared'[id] = disappeared[id] + 1
    ]_vars

\* C8: current_inside is never negative, in the endpoint and in the service.
C8_InsideNeverNegative == current_inside >= 0

\* C8 witness: two tracks have left and the decrements brought
\* current_inside back to 0.
C8_Witness ==
  /\ exit_count >= 2 /\ current_inside = 0
  /\ \E i \in DOMAIN g_obs : g_obs[i].event = "exit"

\* The number of events of one kind among the observations of a cycle.
NumEvents(obs, kind) == Cardinality({i \in DOMAIN obs : obs[i].event = kind})

\* current_inside after the events of a cycle, taken in order: plus one on
\* an Entry, minus one floored at 0 on an Exit.
RECURSIVE InsideAfterEvents(_, _, _)
InsideAfterEvents(n, obs, i) ==
  IF i > Len(obs) THEN n
  ELSE InsideAfterEvents(
         IF obs[i].event = "entry" THEN n + 1
         ELSE IF obs[i].event = "exit" THEN Max(0, n - 1)
         ELSE n,
         obs, i + 1)

\* The same, a track first seen inside counting as one more inside.
RECURSIVE InsideAfterObservations(_, _, _)
InsideAfterObservations(n, obs, i) ==
  IF i > Len(obs) THEN n
  ELSE InsideAfterObservations(
         IF obs[i].event = "entry" THEN n + 1
         ELSE IF obs[i].event = "exit" THEN Max(0, n - 1)
         ELSE IF obs[i].first /\ obs[i].in_polygon THEN n + 1
         ELSE n,
         obs, i + 1)

\* C9 as claimed: a detection cycle of the endpoint changes the counters by
\* its events alone: entry_count by the Entry events, exit_count by the Exit
\* events, current_inside by plus one per Entry and minus one (floored at 0)
\* per Exit; an observation without event changes nothing.
C9_CountersFollowEvents ==
  [][ (program' = "api" /\ g_cycle'.kind = "detect") =>
        /\ enter_count' = enter_count + NumEvents(g_obs', "entry")
        /\ exit_count' = exit_count + NumEvents(g_obs', "exit")
        /\ current_inside' = InsideAfterEvents(current_inside, g_obs', 1)
    ]_vars

\* C9 as amended: the same, except that the first observation of a track,
\* which emits no event, raises current_inside by one when the track is
\* inside; every other cycle of the endpoint leaves the counters alone.
C9_CountersFollowEventsAndFirstSight ==
  [][ /\ (program' = "api" /\ g_cycle'.kind = "detect") =>
           /\ enter_count' = enter_count + NumEvents(g_obs', "entry")
           /\ exit_count' = exit_count + NumEvents(g_obs', "exit")
           /\ current_inside' = InsideAfterObservations(current_inside, g_obs', 1)
           /\ \A i \in DOMAIN g_obs' : g_obs'[i].first => g_obs'[i].event = "none"
      /\ (program' = "api" /\ g_cycle'.kind # "detect") =>
           /\ enter_count' = enter_count
           /\ exit_count' = exit_count
           /\ current_inside' = current_inside
    ]_vars

\* C9 witness: a detection cycle of the endpoint in which one track left
\* the zone and another was first seen inside it.
C9_Witness ==
  /\ program = "api" /\ g_cycle.kind = "detect"
  /\ \E i \in DOMAIN g_obs : g_obs[i].event = "exit"
  /\ \E i \in DOMAIN g_obs : g_obs[i].first /\ g_obs[i].in_polygon

----------------------------------------------------------------------------
(* Claims about the Frame Source                                            *)

\* C10: once stop() has returned and the capture thread has finished (or
\* was never started), the handler holds no opened capture handle.
C10_StopReleasesHandle ==
  (g_stops >= 1 /\ stop_pc = "idle" /\ thread_pc \in {"none", "done"})
    => ~IsOpened(cap)

\* C11 (first half): under fair scheduling of the capture thread, once
\* stop() has set the flag the capture loop finishes, from whichever point
\* of the loop it was in.
C11_LoopTerminates == stopped ~> (thread_pc \in {"none", "done"})

\* C11: a stop() call made after an earlier stop() has returned changes
\* nothing in the handler: neither of its steps changes the capture, the
\* state of any capture handle, the flag, the frame or the frame count.
C11_StopAgainChangesNothing ==
  [][(g_stops >= 1 /\ stop_pc' # stop_pc)
       => UNCHANGED <<cap, handles, frame, stopped, handler_frame_count>>]_vars

\* C12: while not stopped, a capture loop left without an opened capture
\* (its reconnection attempt failed) attempts reconnection again.
C12_ReconnectRetried ==
  (thread_pc = "idle_sleep" /\ ~stopped) ~> (stopped \/ thread_pc = "rc_release")

\* C13: whenever start() has reported success, a frame has been written to
\* the buffer, so read() returns a frame, not None.
C13_SuccessMeansFrame == start_pc = "returned_true" => read(frame) # 0

\* C14: read() can always be taken and nothing in the capture thread waits
\* for it; the buffer holds the frame of the most recent successful
\* transport read, and none exactly when there has been no such read; a
\* read() returns the buffer, and never an older frame than an earlier
\* read() did.
C14_ReadReturnsLatest ==
  [][/\ frame' = g_delivered'
     /\ (frame' = 0) <=> (handler_frame_count' = 0)
     /\ g_read_ret' # g_read_ret
          => /\ g_read_ret' = g_delivered
             /\ g_read_ret' > g_read_ret
             /\ UNCHANGED <<frame, thread_pc>>
     /\ (ENABLED Read)'
     /\ (thread_pc \notin {"none", "done"} /\ (Len(handles) < MaxHandles \/ stopped))
          => ENABLED ThreadStep]_vars

C14_Witness ==
  /\ g_delivered >= 2
  /\ g_read_ret = g_delivered
  /\ thread_pc \notin {"none", "done"}

----------------------------------------------------------------------------
(* Claims about the process around the frame cycle                          *)

\* The coordinates update_polygon stores for the record now in the store.
ReloadedCoordinates ==
  get_coordinates(update_polygon(PolyNow, store_coordinates, FrameSize,
                                 service_original_size))

C17_LoopEndsOnlyOnShutdown == program = "ended" => g_shutdown

\* C18: no consumer runs a frame cycle on a Frame Source whose start()
\* reported failure.
C18_NoCycleOnFailedSource ==
  (program \in {"api", "service"} /\ g_cycle.kind \notin {"none", "start"})
    => source_started = "true"

\* C19: whenever the detection service has ended after its Frame Source was
\* started, stop() has been called on the Frame Source.
C19_SourceStoppedOnExit ==
  (program \in {"ended", "fatal"} /\ source_started = "true") => g_stop_called

\* C20: in a detection cycle, every counted entry or exit has a counting
\* event of that type and track dispatched to the store, an uncounted
\* observation has none, and every tracked box has its detection record
\* dispatched.
C20_CountedCrossingsAreSaved ==
  \A i \in DOMAIN g_obs : g_obs[i].saved = g_obs[i].event /\ g_obs[i].detection

----------------------------------------------------------------------------
(* Claims about the tracker                                                 *)

\* C4: a registered track that misses exactly max_disappeared consecutive
\* update calls is still registered, and after max_disappeared + 1 misses it
\* is deregistered, with an empty detection list or with detections that do
\* not match it: an id is registered exactly while its run of misses is at
\* most max_disappeared.
C4_EvictedPastThreshold ==
  \A id \in DOMAIN g_misses :
    (id \in DOMAIN objects) <=> (g_misses[id] <= max_disappeared)

\* C4 witness: a track evicted at max_disappeared + 1 misses by a call that
\* carried detections, none of which matched it.
C4_Witness ==
  /\ g_last.op = "update" /\ g_last.n > 0
  /\ \E id \in g_dereg : g_misses[id] = max_disappeared + 1 /\ g_cycles = max_disappeared + 2

\* C6: ids are handed out as 0, 1, 2, ... in order; every registered id is
\* below next_object_id; no deregistered id is registered.
C6_IdsNeverReused ==
  /\ g_assigned = [i \in 1..Len(g_assigned) |-> i - 1]
  /\ next_object_id = Len(g_assigned)
  /\ \A id \in DOMAIN objects : id < next_object_id
  /\ g_dereg \cap DOMAIN objects = {}
  /\ DOMAIN objects \cup g_dereg = Range(g_assigned)

\* C6 witness: ids were assigned after one had been deregistered.
C6_Witness ==
  /\ g_dereg # {}
  /\ \E id \in DOMAIN objects : \A d \in g_dereg : id > d

\* C7: every registered track's history has between 1 and 30 entries and is
\* the last min(k, 30) of the k centroids the track was given, in order.
C7_HistoryIsSuffix ==
  \A id \in DOMAIN objects :
    LET h == track_history[id]
        f == g_full[id]
    IN /\ Len(h) >= 1
       /\ Len(h) <= 30
       /\ Len(h) = Min(Len(f), 30)
       /\ \A i \in 1..Len(h) : h[i] = f[Len(f) - Len(h) + i]

\* C7 witness: a track that was given more than 30 centroids.
C7_Witness ==
  \E id \in DOMAIN objects : Len(g_full[id]) > 30 /\ Len(track_history[id]) = 30

----------------------------------------------------------------------------
(* One call of update, seen as a step: the tracker before it (unprimed),   *)
(* the tracker after it (primed) and the call's detections and accepted     *)
(* pairs in g_last'.                                                        *)

\* The step ran update with a non-empty detection list.
UpdateRan == g_cycles' = g_cycles + 1 /\ g_last'.updated /\ g_last'.n >= 1

\* The centroids of the detections of the call.
CallCentroids ==
  [i \in 1..Len(g_last'.detections) |-> Centroid(g_last'.detections[i])]

\* The ids the call registered, ascending.
CallNewIds == SortedSeq((DOMAIN objects') \ (DOMAIN objects))

\* The detections of the call no track was matched to, ascending.
CallFreeCols ==
  SortedSeq((1..Len(g_last'.detections)) \ {p[2] : p \in g_last'.pairs})

\* The squared distance from a track, as the call found it, to the c-th
\* detection of the call.
CallDist(id, c) == DistSq(objects[id], Centroid(g_last'.detections[c]))

\* The squared distance from a track to the detection nearest to it.
CallMin(id) ==
  CHOOSE m \in {CallDist(id, c) : c \in 1..Len(g_last'.detections)} :
    \A c \in 1..Len(g_last'.detections) : m <= CallDist(id, c)

\* The detection nearest to a track: the first one at the least distance.
CallNear(id) ==
  CHOOSE c \in 1..Len(g_last'.detections) :
    /\ CallDist(id, c) = CallMin(id)
    /\ \A c2 \in 1..(c - 1) : CallDist(id, c2) # CallMin(id)

\* C25: an update with n >= 1 detections on a tracker with no registered
\* track registers them as n tracks with the next n ids in detection order
\* (0..n-1 on a fresh tracker), each with disappeared 0 and a history of its
\* own centroid alone.
C25_FirstDetectionsRegisteredInOrder ==
  [][ (UpdateRan /\ DOMAIN objects = {}) =>
        LET n == Len(g_last'.detections) IN
        /\ next_object_id' = next_object_id + n
        /\ DOMAIN objects' = next_object_id..(next_object_id + n - 1)
        /\ next_object_id = 0 => DOMAIN objects' = 0..(n - 1)
        /\ \A i \in 1..n :
             LET id == next_object_id + i - 1 IN
             /\ objects'[id] = CallCentroids[i]
             /\ disappeared'[id] = 0
             /\ track_history'[id] = <<CallCentroids[i]>> ]_vars

\* C25 witness: a fresh tracker was given B then A and holds B as track 0
\* and A as track 1.
C25_Witness ==
  /\ g_cycles = 1
  /\ g_last.updated
  /\ g_last.detections = <<BoxB, BoxA>>
  /\ objects = (0 :> <<320, 300>> @@ 1 :> <<260, 300>>)

\* C26 as claimed: a pair is matched only at a distance strictly below 100;
\* a track whose nearest detection is at 100 or more keeps its id and
\* centroid, has disappeared incremented, and that detection is registered
\* as a new track.
C26_UnmatchedNearestIsRegistered ==
  [][ (UpdateRan /\ DOMAIN objects # {}) =>
        /\ \A p \in g_last'.pairs : CallDist(p[1], p[2]) < GateSq
        /\ \A id \in DOMAIN objects :
             CallMin(id) >= GateSq =>
               /\ id \in DOMAIN objects'
               /\ objects'[id] = objects[id]
               /\ disappeared'[id] = disappeared[id] + 1
               /\ \E new \in Range(CallNewIds) :
                    objects'[new] = CallCentroids[CallNear(id)] ]_vars

\* C26 as amended: a pair is matched only at a distance strictly below 100;
\* a track whose nearest detection is at 100 or more is not matched: its
\* disappeared count is incremented and it keeps its id and centroid, unless
\* the count then exceeds max_disappeared and the track is deregistered;
\* that detection is registered as a new track unless another track was
\* matched to it.
C26_GateIsStrict ==
  [][ (UpdateRan /\ DOMAIN objects # {}) =>
        /\ \A p \in g_last'.pairs : CallDist(p[1], p[2]) < GateSq
        /\ \A id \in DOMAIN objects :
             CallMin(id) >= GateSq =>
               /\ \A p \in g_last'.pairs : p[1] # id
               /\ IF disappeared[id] + 1 > max_disappeared
                    THEN id \notin DOMAIN objects'
                    ELSE /\ id \in DOMAIN objects'
                         /\ objects'[id] = objects[id]
                         /\ disappeared'[id] = disappeared[id] + 1
               /\ LET col == CallNear(id) IN
                  \/ \E p \in g_last'.pairs : p[2] = col
                  \/ \E i \in 1..Len(CallNewIds) :
                       /\ CallFreeCols[i] = col
                       /\ CallNewIds[i] >= next_object_id
                       /\ objects'[CallNewIds[i]] = CallCentroids[col] ]_vars

\* C26 witness: the track at B's centre was given a detection exactly 100 px
\* away; it was not matched, and the detection became track 1.
C26_Witness ==
  /\ g_last.updated
  /\ g_last.detections = <<BoxC>>
  /\ g_last.pairs = {}
  /\ objects = (0 :> <<320, 300>> @@ 1 :> <<420, 300>>)
  /\ disappeared = (0 :> 1 @@ 1 :> 0)

\* C27: no tracker call raises when every detection has at least 4 box
\* coordinates, with or without a confidence value.
C27_TrackerNeverRaises == ~g_last.raised

\* C29: within one update call no detection is matched to two tracks and no
\* track to two detections; a matched track takes the centroid of its
\* detection; the detections left over are registered, one new track each,
\* with fresh ids.
C29_MatchingIsOneToOne ==
  [][ UpdateRan =>
        /\ \A p, q \in g_last'.pairs : (p[1] = q[1]) <=> (p[2] = q[2])
        /\ \A p \in g_last'.pairs :
             /\ p[1] \in DOMAIN objects
             /\ p[2] \in 1..Len(g_last'.detections)
             /\ objects'[p[1]] = CallCentroids[p[2]]
        /\ Len(CallNewIds) = Len(CallFreeCols)
        /\ \A i \in 1..Len(CallNewIds) :
             /\ CallNewIds[i] >= next_object_id
             /\ objects'[CallNewIds[i]] = CallCentroids[CallFreeCols[i]] ]_vars

\* C29 witness: of two detections one was matched to the existing track and
\* the other became a new track.
C29_Witness ==
  /\ g_last.updated
  /\ g_last.detections = <<BoxB, BoxA>>
  /\ g_last.pairs = {<<0, 2>>}
  /\ objects = (0 :> <<260, 300>> @@ 1 :> <<320, 300>>)

\* C30: a track is matched to its nearest detection or to none; of two
\* tracks with the same nearest detection the one at the smaller distance is
\* matched (within the gate) and the other is not matched and is aged, even
\* when another unclaimed detection is within the gate; every unclaimed
\* detection is registered as a new track.
C30_OnlyNearestIsCompetedFor ==
  [][ (UpdateRan /\ DOMAIN objects # {}) =>
        /\ \A p \in g_last'.pairs : p[2] = CallNear(p[1])
        /\ \A id \in DOMAIN objects :
             (/\ CallMin(id) < GateSq
              /\ \A o \in DOMAIN objects :
                   (o # id /\ CallNear(o) = CallNear(id)) => CallMin(id) < CallMin(o))
               => <<id, CallNear(id)>> \in g_last'.pairs
        /\ \A id, o \in DOMAIN objects :
             (CallNear(id) = CallNear(o) /\ CallMin(id) < CallMin(o)) =>
               /\ \A p \in g_last'.pairs : p[1] # o
               /\ o \in DOMAIN objects' =>
                    /\ objects'[o] = objects[o]
                    /\ disappeared'[o] = disappeared[o] + 1
        /\ \A i \in 1..Len(CallFreeCols) :
             /\ i <= Len(CallNewIds)
             /\ objects'[CallNewIds[i]] = CallCentroids[CallFreeCols[i]] ]_vars

\* C30 witness: the tracks at B's and A's centres both had the detection at
\* (300, 300) nearest; B's track took it, A's track was aged, and the
\* detection at (200, 300), 60 px from A's track, became track 2.
C30_Witness ==
  /\ g_last.updated
  /\ g_last.detections = <<BoxD, BoxE>>
  /\ g_last.pairs = {<<0, 1>>}
  /\ objects = (0 :> <<300, 300>> @@ 1 :> <<260, 300>> @@ 2 :> <<200, 300>>)
  /\ disappeared = (0 :> 0 @@ 1 :> 1 @@ 2 :> 0)

----------------------------------------------------------------------------
(* The frame cycle of the endpoint and of the service.                      *)

\* The step is a frame cycle: the frame counter was advanced.
FrameCycle == frame_count' = frame_count + 1

\* C22: in both programs the detector runs in a frame cycle exactly when
\* the frame counter, just advanced, is a multiple of FRAME_SKIP (and the
\* cycle did not fail before it); the tracker, the membership records and
\* the counters change in no other cycle; in every other cycle that does
\* not fail the resized frame is published as it is.
C22_DetectionEveryNthFrame ==
  [][ /\ FrameCycle =>
           /\ (frame_count' % FRAME_SKIP # 0) =>
                /\ UNCHANGED <<next_object_id, objects, disappeared, track_history>>
                /\ UNCHANGED <<prev_inside_state, previous_states, in_flags, out_flags>>
                /\ UNCHANGED <<enter_count, exit_count, current_inside>>
                /\ g_cycle'.kind # "error" =>
                     (g_cycle'.kind = "skip" /\ g_cycle'.published = "raw")
           /\ (frame_count' % FRAME_SKIP = 0 /\ g_cycle'.kind # "error") =>
                g_cycle'.kind = "detect"
      /\ g_cycle'.kind = "detect" => (FrameCycle /\ frame_count' % FRAME_SKIP = 0)
      /\ ( <<next_object_id, objects, disappeared, track_history,
             prev_inside_state, in_flags, out_flags,
             enter_count, exit_count, current_inside>>'
           # <<next_object_id, objects, disappeared, track_history,
               prev_inside_state, in_flags, out_flags,
               enter_count, exit_count, current_inside>> )
           => (FrameCycle /\ frame_count' % FRAME_SKIP = 0) ]_vars

\* C22 witness: a skipped frame after detection cycles that left tracks and
\* a counted entry behind.
C22_Witness ==
  /\ g_cycle.kind = "skip"
  /\ g_cycle.published = "raw"
  /\ frame_count % FRAME_SKIP # 0
  /\ DOMAIN objects # {}
  /\ enter_count > 0

\* C23: every id with a stored previous-membership entry, in the zone
\* detector's map or in the frame loop's map, is a registered track.
C23_MembershipOnlyForRegistered ==
  /\ DOMAIN prev_inside_state \subseteq DOMAIN objects
  /\ DOMAIN previous_states \subseteq DOMAIN objects

\* C24: whenever the running service holds the zone of the record now in
\* the store, loaded at start-up or by the hot reload, and the native frame
\* size is known, the stored coordinates are the record's rescaled by
\* (FRAME_WIDTH / original width, FRAME_HEIGHT / original height).
C24_InstalledZoneIsRescaled ==
  ( /\ program = "service"
    /\ store_coordinates # <<>>
    /\ last_polygon_update = store_updated_at
    /\ service_original_size[1] > 0
    /\ service_original_size[2] > 0 )
  => get_coordinates(PolyNow) =
       Scaled(store_coordinates, FRAME_WIDTH, service_original_size[1],
              FRAME_HEIGHT, service_original_size[2])

----------------------------------------------------------------------------
(* Persistence                                                              *)

\* The step is the end of a save task.
SaveTaskEnded == save_tasks' # save_tasks /\ save_tasks' \subseteq save_tasks

\* C21: a save task that ends, its insert stored or failed, leaves the
\* program running and changes neither the counters, nor the membership
\* records, nor the frame counter, nor the tracker: after a failed write
\* they are what they are after a successful one.
C21_SaveFailureIsAbsorbed ==
  [][ SaveTaskEnded =>
        /\ program' = program
        /\ program' \in {"api", "service"}
        /\ UNCHANGED <<enter_count, exit_count, current_inside>>
        /\ UNCHANGED <<prev_inside_state, in_flags, out_flags, previous_states>>
        /\ UNCHANGED <<frame_count, next_object_id, objects, disappeared,
                       track_history>> ]_vars

\* C21 witness: the endpoint has counted an entry and an exit, and the save
\* task that ended last had its insert fail.
C21_Witness ==
  /\ program = "api"
  /\ g_save = "failed"
  /\ enter_count > 0
  /\ exit_count > 0

----------------------------------------------------------------------------
(* The configuration endpoints                                              *)

\* No two documents of the collection have the same area_name.
UniqueNames(coll) ==
  \A i, j \in 1..Len(coll) : coll[i].area_name = coll[j].area_name => i = j

\* C28: whatever the interleaving of concurrent handlers, no two
\* zone records share an area_name; a create for a name in the store and an
\* update, delete or reset for a name not in the store are answered with an
\* error and change nothing.
C28_MissingNameIsRejected ==
  [][ /\ UniqueNames(polygon_collection')
      /\ g_steps' # g_steps =>
           LET r       == g_response'
               present == Holds(polygon_collection, r.area_name)
           IN /\ (r.op = "create" /\ r.step \in {"find", "write"} /\ present) =>
                   /\ r.status \in {400, 500}
                   /\ UNCHANGED polygon_collection
              /\ (r.op \in {"update", "delete", "reset"} /\ ~present) =>
                   /\ UNCHANGED <<polygon_collection, g_purged>>
                   /\ r.status # 0 => r.status >= 400 ]_vars

\* C28 (what does hold): whatever the interleaving of concurrent create,
\* update, delete and reset handlers, no two zone records share an
\* area_name; a create whose name is in the store, when it looks the name up
\* or when it inserts, is
\* answered with an error and does not change the store; an update, delete
\* or reset whose name is not in the store does not change the store, and
\* is answered 404, with no data deleted, when its lookup finds no record.
C28_AreaNamesUnique ==
  [][ /\ UniqueNames(polygon_collection')
      /\ g_steps' # g_steps =>
           LET r       == g_response'
               present == Holds(polygon_collection, r.area_name)
           IN /\ (r.op = "create" /\ r.step \in {"find", "write"} /\ present) =>
                   /\ r.status \in {400, 500}
                   /\ UNCHANGED polygon_collection
              /\ (r.op \in {"update", "delete", "reset"} /\ ~present) =>
                   /\ UNCHANGED polygon_collection
                   /\ r.step = "find" => (r.status = 404 /\ UNCHANGED g_purged) ]_vars

\* C28 (what does hold), a case of it: of two concurrent creates for the
\* same new name, both past their lookup, the second to insert was refused by the unique index, and
\* the store holds the name once.
C28_Witness ==
  /\ g_response.op = "create"
  /\ g_response.step = "write"
  /\ g_response.status = 500
  /\ Holds(polygon_collection, g_response.area_name)
  /\ UniqueNames(polygon_collection)
----------------------------------------------------------------------------
(* The boxes get_tracks_with_boxes returns, against the tracks update left. *)

\* The step ran get_tracks_with_boxes on a non-empty list and it returned.
BoxesRan ==
  /\ g_cycles' = g_cycles + 1
  /\ g_last'.op = "get_tracks_with_boxes"
  /\ g_last'.updated
  /\ ~g_last'.raised

\* The id update gave the i-th detection of the call: the track it was
\* matched to, or the track registered for it.
CallIdOf(i) ==
  IF \E p \in g_last'.pairs : p[2] = i
    THEN (CHOOSE p \in g_last'.pairs : p[2] = i)[1]
    ELSE CallNewIds[CHOOSE k \in 1..Len(CallFreeCols) : CallFreeCols[k] = i]

\* C31: every box get_tracks_with_boxes returns carries the id of the track
\* that update, in the same call, matched its detection to or registered for
\* it, also when several detections of the call have the same centroid.
C31_BoxCarriesItsTrack ==
  [][BoxesRan =>
       /\ Len(g_last'.tracks) = g_last'.n
       /\ \A i \in 1..g_last'.n : g_last'.tracks[i][6] = CallIdOf(i)]_vars

\* C32: for a non-empty list get_tracks_with_boxes returns one entry per
\* detection, in input order, with the detection's box and confidence; the
\* track of each entry is at distance 0 from the detection's centroid, so no
\* detection is dropped.
C32_OneEntryPerDetection ==
  (g_last.op = "get_tracks_with_boxes" /\ g_last.updated /\ ~g_last.raised) =>
    /\ Len(g_last.tracks) = g_last.n
    /\ \A i \in 1..g_last.n :
         /\ \A k \in 1..5 : g_last.tracks[i][k] = g_last.detections[i][k]
         /\ g_last.tracks[i][6] \in DOMAIN objects
         /\ DistSq(objects[g_last.tracks[i][6]],
                   Centroid(g_last.detections[i])) = 0

C32_Witness ==
  /\ g_last.op = "get_tracks_with_boxes"
  /\ g_last.n = 2
  /\ Len(g_last.tracks) = 2
  /\ g_last.tracks[1][6] # g_last.tracks[2][6]
  /\ g_last.pairs # {}

\* The step ran update, on any list.
AnyUpdateRan == g_cycles' = g_cycles + 1 /\ g_last'.updated

\* The tracks the call matched.
CallMatched == {p[1] : p \in g_last'.pairs}

\* C33: after every update each registered track has 0 <= disappeared <=
\* max_disappeared; a matched track has disappeared 0 and the centroid of its
\* detection; a track that was not matched has one miss more and the same
\* centroid and history, or is gone because it exceeded max_disappeared.
C33_DisappearedCounts ==
  [][AnyUpdateRan =>
       /\ \A id \in DOMAIN objects' : disappeared'[id] \in 0..MaxDisappeared
       /\ \A p \in g_last'.pairs :
            /\ p[1] \in DOMAIN objects /\ p[1] \in DOMAIN objects'
            /\ disappeared'[p[1]] = 0
            /\ objects'[p[1]] = Centroid(g_last'.detections[p[2]])
       /\ \A id \in (DOMAIN objects) \ CallMatched :
            IF id \in DOMAIN objects'
              THEN /\ disappeared'[id] = disappeared[id] + 1
                   /\ objects'[id] = objects[id]
                   /\ track_history'[id] = track_history[id]
              ELSE disappeared[id] = MaxDisappeared]_vars

\* A track matched again after a miss, next to one at the limit.
C33_Witness ==
  /\ g_last.updated
  /\ \E p \in g_last.pairs :
       /\ p[1] \in DOMAIN objects
       /\ disappeared[p[1]] = 0
       /\ Len(g_full[p[1]]) >= 2
       /\ \E id \in DOMAIN g_misses : id # p[1] /\ id \in g_dereg
  /\ \E id \in DOMAIN objects : disappeared[id] = MaxDisappeared

\* C40: objects, disappeared and track_history always have the same keys,
\* and the last element of each track's history is its current centroid.
C40_MapsAgree ==
  /\ DOMAIN objects = DOMAIN disappeared
  /\ DOMAIN objects = DOMAIN track_history
  /\ \A id \in DOMAIN objects :
       /\ Len(track_history[id]) >= 1
       /\ track_history[id][Len(track_history[id])] = objects[id]

\* A track was deregistered and another one has moved.
C40_Witness ==
  /\ g_dereg # {}
  /\ \E id \in DOMAIN objects :
       /\ Len(track_history[id]) >= 2
       /\ track_history[id][1] # objects[id]
----------------------------------------------------------------------------
(* The polygon check task against the version the service holds.            *)

\* The updated_at of the record the service last loaded or created: the one
\* it remembers, or, when it remembers the clock reading it took after
\* inserting the default record, the updated_at it gave that record.
LoadedVersion == IF last_polygon_update = 3 THEN 2 ELSE last_polygon_update

\* The step is the second half of a poll iteration.
PollApplied == program = "service" /\ polygon_config.pending /\ ~polygon_config'.pending

\* C34: a poll that finds the record with the updated_at of the record the
\* service last loaded or created, the first poll after the service created
\* the default record included, does not call update_polygon: zone,
\* membership map and remembered version stay as they are.
C34_PollReloadsOnlyOnChange ==
  [][(/\ PollApplied
      /\ polygon_config.coordinates # <<>>
      /\ last_polygon_update # 0
      /\ polygon_config.updated_at = LoadedVersion)
       => UNCHANGED <<pm_coordinates, pm_polygon, previous_states,
                      last_polygon_update>>]_vars
----------------------------------------------------------------------------
(* start() and the two transports.                                          *)

\* C36: start() reports failure only after the capture was tried on the
\* stream url itself: when the manifest resolved and the capture on the
\* resolved url did not open, the direct url is tried before False is
\* returned.
C36_FallbackTriedBeforeFailure ==
  start_pc = "returned_false" => "direct" \in g_tried
----------------------------------------------------------------------------
(* The frames the loops process against the frames the source captured.     *)

\* C37: each captured frame is processed at most once: the frame counter
\* advances only on a frame newer than the one processed last, so the cycles
\* run never outnumber the frames the Frame Source has captured.
C37_EachFrameProcessedOnce == frame_count <= g_delivered
----------------------------------------------------------------------------
(* The endpoint's current_inside against its membership map.                *)

\* The track ids whose stored previous membership is true.
InsideIds == {id \in DOMAIN prev_inside_state : prev_inside_state[id]}

\* The tracks a cycle observed for the first time, inside the zone.
NumFirstInside(obs) ==
  Cardinality({i \in DOMAIN obs : obs[i].first /\ obs[i].in_polygon})

\* C38: in the streaming endpoint current_inside always equals the number of
\* track ids whose stored previous membership is true, deregistered ids
\* included; every detection cycle changes it by the tracks first observed
\* inside plus the entries minus the exits, so the clamp at 0 never changes
\* the result of a decrement.
C38_InsideCountsMembers ==
  /\ [](program = "api" => current_inside = Cardinality(InsideIds))
  /\ [][(program' = "api" /\ g_cycle'.kind = "detect") =>
          current_inside' - current_inside =
            NumFirstInside(g_obs') + NumEvents(g_obs', "entry")
              - NumEvents(g_obs', "exit")]_vars

\* A track first seen inside is gone and still counted, another one has
\* entered and one has left.
C38_Witness ==
  /\ program = "api"
  /\ \E id \in InsideIds : id \notin DOMAIN objects
  /\ enter_count >= 1
  /\ exit_count >= 1
  /\ current_inside + exit_count > enter_count
----------------------------------------------------------------------------
(* The service's line-crossing counter.                                     *)

\* The tracks for which a cycle counted an event of one kind.
EventIds(obs, kind) == {obs[i].track_id : i \in {j \in DOMAIN obs : obs[j].event = kind}}

\* C39: in the service each track id is counted for at most one enter and at
\* most one exit, an exit only after its enter, so that in every state
\* current_inside = enter_count - exit_count >= 0.
C39_LineCounterDifference ==
  /\ [](program = "service" =>
          /\ current_inside = enter_count - exit_count
          /\ current_inside >= 0
          /\ enter_count = Cardinality(in_flags)
          /\ exit_count = Cardinality(out_flags)
          /\ out_flags \subseteq in_flags)
  /\ [][(program' = "service" /\ g_cycle'.kind = "detect") =>
          /\ EventIds(g_obs', "entry") \cap in_flags = {}
          /\ EventIds(g_obs', "exit") \cap out_flags = {}
          /\ EventIds(g_obs', "exit")
               \subseteq in_flags \cup EventIds(g_obs', "entry")
          /\ NumEvents(g_obs', "entry") = Cardinality(EventIds(g_obs', "entry"))
          /\ NumEvents(g_obs', "exit") = Cardinality(EventIds(g_obs', "exit"))]_vars

\* One track has entered and left, another has entered and is still counted.
C39_Witness ==
  /\ program = "service"
  /\ out_flags # {}
  /\ in_flags \ out_flags # {}
  /\ current_inside >= 1
  /\ exit_count >= 1
----------------------------------------------------------------------------
(* Detection cycles against the other coroutines of the event loop.         *)

\* The coroutines inside a detection cycle: past the frame counter, before
\* the counters of the last tracked box.
MidTasks == {t \in Tasks : task_pc[t] \in {"detect", "draw"}}

\* What a detection cycle reads and writes: tracker, zone, membership and
\* counters.
CycleState ==
  <<next_object_id, objects, disappeared, track_history,
    pm_coordinates, pm_polygon, previous_states,
    prev_inside_state, in_flags, out_flags,
    enter_count, exit_count, current_inside>>

\* C35: nothing interleaves with a detection cycle: at most one coroutine
\* is inside a cycle, the polygon check applies a record only when none is,
\* and while a coroutine is inside its cycle the tracker, the zone, the
\* membership maps and the counters change only by that coroutine's own
\* steps, so the zone is the same for all tracks of the cycle.
C35_CyclesAreAtomic ==
  /\ [](Cardinality(MidTasks) <= 1)
  /\ [](task_pc["poll"] = "apply" => MidTasks = {})
  /\ [][\A t \in MidTasks :
          /\ CycleState' # CycleState => task_pc'[t] # task_pc[t]
          /\ <<pm_coordinates, pm_polygon, previous_states>>'
               = <<pm_coordinates, pm_polygon, previous_states>>]_vars

\* The service is inside a cycle, between tracker update and counters,
\* after a reload, while a newer record waits in the store.
C35_Witness ==
  /\ program = "service"
  /\ task_pc["run"] = "draw"
  /\ Len(task_tracked["run"]) = 2
  /\ g_pm_reloads >= 1
  /\ store_updated_at # last_polygon_update

\* Two streaming responses have both run cycles and one is inside a cycle.
C35_WitnessStreams ==
  /\ program = "api"
  /\ task_pc["stream_1"] = "draw"
  /\ task_count["stream_2"] >= 2
  /\ DOMAIN prev_inside_state # {}

====
